---- MODULE Spec2Model ----
(***************************************************************************)
(* Model of AudioSetup (src/audio_setup.py): the PipeWire routing session  *)
(* of music-recorder3000.  The session object's fields are the variables,  *)
(* the audio server is reduced to the part the session can observe (the    *)
(* null sinks, their module ids, the port lists), and every public method  *)
(* is one action.  Names of nodes and ports are sequences of characters so *)
(* that the substring and suffix tests of the code are computed, not       *)
(* assumed.                                                                *)
(***************************************************************************)
EXTENDS Integers, Sequences, FiniteSets, TLC

(***************************************************************************)
(* Bounds of the model.                                                    *)
(***************************************************************************)
\* calls made on the session in one run
MaxCalls == 3
\* calls of one run during which the environment misbehaves
MaxFaults == 1
\* calls made on the session in one run of the port-matching routines
MaxMatchCalls == 2
\* SIGINTs that arrive during one run of a script
MaxInterrupts == 2

(***************************************************************************)
(* Program constants.                                                      *)
(***************************************************************************)
FADE_STEPS == 20
\* max(1, int(FADE_DURATION / 0.025)) with FADE_DURATION = 0.5
FadeSinkSteps == 20

(***************************************************************************)
(* Strings.  Python str values are sequences of one-character strings.     *)
(***************************************************************************)
RECORD_MIX == <<"r","e","c","o","r","d","_","m","i","x">>
MONITOR_MIX == <<"m","o","n","i","t","o","r","_","m","i","x">>
SCRCPY == <<"s","c","r","c","p","y">>
SPK == <<"s","p","k">>
USB_IN == <<"a","l","s","a","_","i","n","p","u","t",".","u","s","b">>
DOT_MONITOR == <<".","m","o","n","i","t","o","r">>
T_CAPTURE_MONO == <<"c","a","p","t","u","r","e","_","M","O","N","O">>
T_MONITOR_FL == <<"m","o","n","i","t","o","r","_","F","L">>
T_MONITOR_FR == <<"m","o","n","i","t","o","r","_","F","R">>
T_PLAYBACK_FL == <<"p","l","a","y","b","a","c","k","_","F","L">>
T_PLAYBACK_FR == <<"p","l","a","y","b","a","c","k","_","F","R">>
T_OUTPUT_FL == <<"o","u","t","p","u","t","_","F","L">>
T_OUTPUT_FR == <<"o","u","t","p","u","t","_","F","R">>
MIC == <<"m","i","c">>
HDMI == <<"h","d","m","i">>
T_MONO == <<"m","o","n","o">>
T_MONITOR == <<"m","o","n","i","t","o","r">>
S_MONO == <<"M","O","N","O">>
S__MONO == <<"_","M","O","N","O">>
S__FL == <<"_","F","L">>
S__L == <<"_","L">>
S__FR == <<"_","F","R">>
S__R == <<"_","R">>
S_ALSA_INPUT == <<"a","l","s","a","_","i","n","p","u","t">>
S_USB == <<"u","s","b">>
S_MONITOR == <<"m","o","n","i","t","o","r">>

\* None of Python, for a str-valued field and for an int-valued field
NoName == <<>>
NoId == -1

Port(node, tag) == node \o <<":">> \o tag

UpperCase == <<"A","B","C","D","E","F","G","H","I","J","K","L","M",
               "N","O","P","Q","R","S","T","U","V","W","X","Y","Z">>
LowerCase == <<"a","b","c","d","e","f","g","h","i","j","k","l","m",
               "n","o","p","q","r","s","t","u","v","w","x","y","z">>

LowerMap ==
    [c \in {UpperCase[i] : i \in 1..26} |->
        LowerCase[CHOOSE i \in 1..26 : UpperCase[i] = c]]
UpperMap ==
    [c \in {LowerCase[i] : i \in 1..26} |->
        UpperCase[CHOOSE i \in 1..26 : LowerCase[i] = c]]

LowerChar(c) == IF c \in DOMAIN LowerMap THEN LowerMap[c] ELSE c
UpperChar(c) == IF c \in DOMAIN UpperMap THEN UpperMap[c] ELSE c

\* str.lower() and str.upper()
Lower(s) == [i \in 1..Len(s) |-> LowerChar(s[i])]
Upper(s) == [i \in 1..Len(s) |-> UpperChar(s[i])]

\* `pat in s`
Contains(pat, s) ==
    \E i \in 0..(Len(s) - Len(pat)) : \A j \in 1..Len(pat) : s[i + j] = pat[j]

\* `pat.lower() in s.lower()`
ContainsCI(pat, s) ==
    \E i \in 0..(Len(s) - Len(pat)) :
        \A j \in 1..Len(pat) : LowerChar(s[i + j]) = LowerChar(pat[j])

\* s.endswith(suf)
EndsWith(s, suf) ==
    /\ Len(suf) <= Len(s)
    /\ \A j \in 1..Len(suf) : s[Len(s) - Len(suf) + j] = suf[j]

\* s.split(":")[-1]: the text after the last ':' (all of s when there is none)
AfterLastColon(s) ==
    IF \E i \in 1..Len(s) : s[i] = ":"
    THEN LET i == CHOOSE j \in 1..Len(s) :
                      s[j] = ":" /\ \A k \in (j + 1)..Len(s) : s[k] # ":"
         IN  SubSeq(s, i + 1, Len(s))
    ELSE s

\* s.split(c)[-1]: the text after the last c (all of s when there is none)
AfterLast(s, c) ==
    IF \E i \in 1..Len(s) : s[i] = c
    THEN LET i == CHOOSE j \in 1..Len(s) :
                      s[j] = c /\ \A k \in (j + 1)..Len(s) : s[k] # c
         IN  SubSeq(s, i + 1, Len(s))
    ELSE s

\* [l for l in s if pat.lower() in l.lower()]
RECURSIVE SelectContaining(_, _)
SelectContaining(s, pat) ==
    IF s = <<>> THEN <<>>
    ELSE (IF ContainsCI(pat, Head(s)) THEN <<Head(s)>> ELSE <<>>)
         \o SelectContaining(Tail(s), pat)

(***************************************************************************)
(* The environment of one call.  Every external command or query the code  *)
(* runs can fail; F is the set of ways the environment misbehaves during   *)
(* the call.                                                               *)
(***************************************************************************)
Fault(k, a, b, n) == [k |-> k, a |-> a, b |-> b, n |-> n]

F_LOAD(name) == Fault("load-module fails", name, <<>>, 0)
F_UNLOAD == Fault("unload-module fails", <<>>, <<>>, 0)
F_LINK(out, in) == Fault("pw-link fails", out, in, 0)
F_LINK_ALL == Fault("pw-link fails for every pair", <<>>, <<>>, 0)
F_UNLINK(out, in) == Fault("pw-link -d fails", out, in, 0)
F_UNLINK_ALL == Fault("pw-link -d fails for every pair", <<>>, <<>>, 0)
F_VOL(target) == Fault("set-volume fails", target, <<>>, 0)
F_NO_DEFAULT == Fault("get-default-sink fails", <<>>, <<>>, 0)
F_SOURCES == Fault("list sources fails", <<>>, <<>>, 0)
F_SINKS == Fault("list sinks fails", <<>>, <<>>, 0)
F_NO_USB == Fault("no usb capture device", <<>>, <<>>, 0)
F_NO_SCRCPY == Fault("scrcpy binary missing", <<>>, <<>>, 0)
F_NO_NODE == Fault("scrcpy node never appears", <<>>, <<>>, 0)
F_NO_PORTS(node) == Fault("ports not visible", node, <<>>, 0)
F_AUTO(out, in) == Fault("auto-link present", out, in, 0)
F_STOP(k) == Fault("interrupted after step", <<>>, <<>>, k)

\* steps of setup_recording after which an exception can end it
SetupSteps == 13

\* the links whose creation or removal is made to fail one at a time
FaultPairs ==
    { <<Port(USB_IN, T_CAPTURE_MONO), Port(RECORD_MIX, T_PLAYBACK_FL)>>,
      <<Port(RECORD_MIX, T_MONITOR_FL), Port(MONITOR_MIX, T_PLAYBACK_FL)>>,
      <<Port(MONITOR_MIX, T_MONITOR_FL), Port(SPK, T_PLAYBACK_FL)>> }

AutoPairs ==
    { <<Port(SCRCPY, T_OUTPUT_FL), Port(SPK, T_PLAYBACK_FL)>>,
      <<Port(RECORD_MIX, T_MONITOR_FL), Port(SPK, T_PLAYBACK_FL)>> }

FaultKinds ==
    { F_LOAD(RECORD_MIX), F_LOAD(MONITOR_MIX), F_UNLOAD, F_SINKS,
      F_LINK_ALL, F_UNLINK_ALL,
      F_VOL(RECORD_MIX), F_VOL(MONITOR_MIX), F_VOL(USB_IN),
      F_NO_DEFAULT, F_SOURCES, F_NO_USB, F_NO_SCRCPY, F_NO_NODE,
      F_NO_PORTS(RECORD_MIX), F_NO_PORTS(MONITOR_MIX) }
    \cup { F_LINK(p[1], p[2]) : p \in FaultPairs }
    \cup { F_UNLINK(p[1], p[2]) : p \in FaultPairs }
    \cup { F_AUTO(p[1], p[2]) : p \in AutoPairs }
    \cup { F_STOP(k) : k \in 1..(SetupSteps - 1) }

VolFails(F, target) == F_VOL(target) \in F
LinkFails(F, out, in) == F_LINK_ALL \in F \/ F_LINK(out, in) \in F
UnlinkFails(F, out, in) == F_UNLINK_ALL \in F \/ F_UNLINK(out, in) \in F
(***************************************************************************)
(* The state.  One variable per field of AudioSetup, the audio server's    *)
(* sinks, and the record of the last call: the commands it issued, in      *)
(* order, what it returned and whether it raised.                          *)
(***************************************************************************)
VARIABLES
    virtual_sink_id,      \* module id of record_mix, NoId for None
    monitor_sink_id,      \* module id of monitor_mix, NoId for None
    scrcpy_process,       \* "None", or "running" for a live Popen handle
    _cleanup_registered,  \* cleanup is an atexit hook
    _created_links,       \* the ledger: sequence of <<out port, in port>>
    _monitor_links,       \* the monitor ledger
    _managed_sources,     \* sequence of source names
    _virtual_sink_name,   \* NoName for None
    _monitor_sink_name,   \* NoName for None
    _default_sink,        \* NoName for None
    _monitoring_enabled,  \* the monitoring state: TRUE is Enabled
    sinks,                \* audio server: sink name -> module id, 0 = absent
    next_module,          \* audio server: the id the next load-module returns
    other_ports,          \* audio server: the ports of the other nodes
    unloaded,             \* module ids an unload-module was issued for
    cmds,                 \* commands and state changes of the last call
    call,                 \* the last call: method, arguments, environment
    ret,                  \* what the last call returned
    exc,                  \* the exception the last call ended with, or "none"
    flags,                \* the arguments this run gives setup_recording
    ncalls,               \* calls made so far
    nfaults,              \* calls so far during which the environment failed
    atexit_hooks,         \* how many times cleanup is registered with atexit
    main,                 \* the script that drives the session, see below
    threads               \* the threads inside a monitoring method, see below

vars == << virtual_sink_id, monitor_sink_id, scrcpy_process,
           _cleanup_registered, _created_links, _monitor_links,
           _managed_sources, _virtual_sink_name, _monitor_sink_name,
           _default_sink, _monitoring_enabled, sinks, next_module,
           other_ports, unloaded, cmds, call, ret, exc, flags, ncalls,
           nfaults, atexit_hooks, main, threads >>

SinkNames == {RECORD_MIX, MONITOR_MIX}

\* no script: the methods are called on the session directly
NoMain ==
    [ program |-> "none", pc |-> "none", k |-> 0,
      sigint |-> "default_int_handler", stopping |-> FALSE,
      looped |-> FALSE, interrupts |-> 0, ignored |-> 0 ]

\* the threads that may call the monitoring methods; none is inside one
Threads == {1, 2}
NoThreads == [t \in Threads |-> [op |-> "idle", pc |-> 0]]

\* a server on which only the capture device, the sinks, scrcpy and the
\* default sink have ports
NoPorts == [outputs |-> <<>>, inputs |-> <<>>]

\* module id of a sink some other client loaded before the session started
ExternalModule == 0 - 2

\* the state as one value, as the methods see it through `self`
World ==
    [ virtual_sink_id |-> virtual_sink_id,
      monitor_sink_id |-> monitor_sink_id,
      scrcpy_process |-> scrcpy_process,
      _cleanup_registered |-> _cleanup_registered,
      _created_links |-> _created_links,
      _monitor_links |-> _monitor_links,
      _managed_sources |-> _managed_sources,
      _virtual_sink_name |-> _virtual_sink_name,
      _monitor_sink_name |-> _monitor_sink_name,
      _default_sink |-> _default_sink,
      _monitoring_enabled |-> _monitoring_enabled,
      sinks |-> sinks,
      next_module |-> next_module,
      other_ports |-> other_ports,
      unloaded |-> unloaded,
      cmds |-> cmds,
      ret |-> ret,
      exc |-> exc,
      atexit_hooks |-> atexit_hooks,
      returned |-> FALSE,    \* local: the method has executed `return`
      sources |-> <<>>,      \* local: the dict setup_recording builds
      virtual_sink |-> NoName,   \* local of setup_recording
      synth_name |-> NoName ]    \* local of setup_recording

\* one entry of cmds
Ev(c, a, b, v, ok) == [c |-> c, a |-> a, b |-> b, v |-> v, ok |-> ok]

Emit(w, e) == [w EXCEPT !.cmds = Append(@, e)]

Return(w, value) == [w EXCEPT !.ret = value]

\* Sequencing of statements: the state w after one statement is computed
\* once, and Rest is applied to it.
Then(w, Rest(_)) == CHOOSE r \in { Rest(v) : v \in {w} } : TRUE

\* truth value of a str: None and "" are false
Truthy(name) == name # NoName

(***************************************************************************)
(* Volume.                                                                 *)
(***************************************************************************)
set_source_volume(w, source_name, volume_percent, F) ==
    LET ok == ~VolFails(F, source_name)
    IN  Return(Emit(w, Ev("set-source-volume", source_name, <<>>,
                          volume_percent, ok)), ok)

set_sink_volume(w, sink_name, volume_percent, F) ==
    LET ok == ~VolFails(F, sink_name)
    IN  Return(Emit(w, Ev("set-sink-volume", sink_name, <<>>,
                          volume_percent, ok)), ok)

\* int((step / FADE_STEPS) * 100)
FadeVolume(step) == (step * 100) \div FADE_STEPS

\* what one iteration of the loops of fade_in and fade_out sets, in order:
\* every managed source, then the mix sink when it has a name
FadeTargets(w) ==
    [i \in 1..Len(w._managed_sources) |->
        <<"set-source-volume", w._managed_sources[i]>>]
    \o (IF Truthy(w._virtual_sink_name)
        THEN << <<"set-sink-volume", w._virtual_sink_name>> >>
        ELSE <<>>)

\* the volume commands of the whole loop; StepAt(i) is the value of `step`
\* in iteration i = 0, 1, ...
FadeLoop(w, StepAt(_), F) ==
    LET targets == FadeTargets(w)
        n == Len(targets)
        events == [j \in 1..(n * (FADE_STEPS + 1)) |->
                      LET t == targets[((j - 1) % n) + 1]
                      IN  Ev(t[1], t[2], <<>>,
                             FadeVolume(StepAt((j - 1) \div n)),
                             ~VolFails(F, t[2]))]
    IN  [w EXCEPT !.cmds = @ \o events]

FadeInStep(i) == i
\* fade_in whose loop is range(FADE_STEPS): the last step is not run
fade_in_one_step_short(w, F) ==
    Then(FadeLoop(w, FadeInStep, F), LAMBDA w1 :
    Return([w1 EXCEPT !.cmds =
                SubSeq(@, 1, Len(@) - Len(FadeTargets(w)))], "None"))

fade_in(w, F) == Return(FadeLoop(w, FadeInStep, F), "None")

FadeOutStep(i) == FADE_STEPS - i
\* fade_out whose loop is range(FADE_STEPS, 0, -1): step 0 is not run
fade_out_one_step_short(w, F) ==
    Then(FadeLoop(w, FadeOutStep, F), LAMBDA w1 :
    Return([w1 EXCEPT !.cmds =
                SubSeq(@, 1, Len(@) - Len(FadeTargets(w)))], "None"))

fade_out(w, F) == Return(FadeLoop(w, FadeOutStep, F), "None")

\* The cases in which the double-precision value of
\* start + (end - start) * (step / steps) lies just below the exact value,
\* which is an integer there, so that int() yields one less (steps = 20).
FloatSlips == { <<0, 90, 14>>, <<1, 91, 14>>, <<100, 0, 11>> }

\* int(start + (end - start) * progress) with progress = step / steps
SinkFadeVolume(start, end, step, steps) ==
    LET exact == (start * steps + (end - start) * step) \div steps
    IN  IF steps = 20 /\ <<start, end, step>> \in FloatSlips
        THEN exact - 1
        ELSE exact

\* _fade_sink_only whose set_sink_volume lets the failure of pactl through:
\* the first failed command ends the ramp with the exception
_fade_sink_only_raises(w, sink_name, start, end, F) ==
    IF VolFails(F, sink_name)
    THEN [Emit(w, Ev("set-sink-volume", sink_name, <<>>,
                     SinkFadeVolume(start, end, 0, FadeSinkSteps), FALSE))
             EXCEPT !.exc = "CalledProcessError"]
    ELSE LET events == [j \in 1..(FadeSinkSteps + 1) |->
                           Ev("set-sink-volume", sink_name, <<>>,
                              SinkFadeVolume(start, end, j - 1, FadeSinkSteps),
                              TRUE)]
         IN  Return([w EXCEPT !.cmds = @ \o events], "None")

_fade_sink_only(w, sink_name, start, end, F) ==
    LET events == [j \in 1..(FadeSinkSteps + 1) |->
                      Ev("set-sink-volume", sink_name, <<>>,
                         SinkFadeVolume(start, end, j - 1, FadeSinkSteps),
                         ~VolFails(F, sink_name))]
    IN  Return([w EXCEPT !.cmds = @ \o events], "None")

(***************************************************************************)
(* The link ledger.                                                        *)
(***************************************************************************)
\* link_ports that records the link without looking at pw-link's result
link_ports_unchecked(w, output_port, input_port, is_monitor_link, F) ==
    LET ok == ~LinkFails(F, output_port, input_port)
        w1 == Emit(w, Ev("link", output_port, input_port, 0, ok))
    IN  Return([w1 EXCEPT
               !._created_links = Append(@, <<output_port, input_port>>),
               !._monitor_links =
                   IF is_monitor_link
                   THEN Append(@, <<output_port, input_port>>)
                   ELSE @], ok)

link_ports(w, output_port, input_port, is_monitor_link, F) ==
    LET ok == ~LinkFails(F, output_port, input_port)
        w1 == Emit(w, Ev("link", output_port, input_port, 0, ok))
    IN  IF ok
        THEN Return([w1 EXCEPT
                 !._created_links = Append(@, <<output_port, input_port>>),
                 !._monitor_links =
                     IF is_monitor_link
                     THEN Append(@, <<output_port, input_port>>)
                     ELSE @], TRUE)
        ELSE Return(w1, FALSE)

unlink_ports(w, output_port, input_port, F) ==
    LET ok == ~UnlinkFails(F, output_port, input_port)
    IN  Return(Emit(w, Ev("unlink", output_port, input_port, 0, ok)), ok)

RECURSIVE UnlinkEach(_, _, _)
UnlinkEach(w, links, F) ==
    IF links = <<>> THEN w
    ELSE Then(unlink_ports(w, Head(links)[1], Head(links)[2], F),
              LAMBDA w1 : UnlinkEach(w1, Tail(links), F))

\* the loop of a remove_all_links that drops an entry only when its unlink
\* succeeded
RECURSIVE UnlinkAndKeepFailed(_, _, _)
UnlinkAndKeepFailed(w, links, F) ==
    IF links = <<>> THEN [w EXCEPT !._created_links = <<>>]
    ELSE Then(unlink_ports(w, Head(links)[1], Head(links)[2], F),
              LAMBDA w1 :
         Then(UnlinkAndKeepFailed(w1, Tail(links), F), LAMBDA w2 :
         IF w1.ret THEN w2
         ELSE [w2 EXCEPT !._created_links = <<Head(links)>> \o @]))

remove_all_links_keep_failed(w, F) ==
    Return(UnlinkAndKeepFailed(w, w._created_links, F), "None")

remove_all_links(w, F) ==
    Then(UnlinkEach(w, w._created_links, F), LAMBDA w1 :
    Return([w1 EXCEPT !._created_links = <<>>], "None"))

(***************************************************************************)
(* What the audio server shows: port lists, source list, default sink.     *)
(***************************************************************************)
SinkVisible(w, F, name) == w.sinks[name] # 0 /\ F_NO_PORTS(name) \notin F

\* the lines of `pw-link -o`
OutputPorts(w, F) ==
    (IF F_NO_USB \in F THEN <<>> ELSE <<Port(USB_IN, T_CAPTURE_MONO)>>)
    \o (IF SinkVisible(w, F, RECORD_MIX)
        THEN <<Port(RECORD_MIX, T_MONITOR_FL), Port(RECORD_MIX, T_MONITOR_FR)>>
        ELSE <<>>)
    \o (IF SinkVisible(w, F, MONITOR_MIX)
        THEN <<Port(MONITOR_MIX, T_MONITOR_FL),
               Port(MONITOR_MIX, T_MONITOR_FR)>>
        ELSE <<>>)
    \o (IF w.scrcpy_process = "running" /\ F_NO_NODE \notin F
        THEN <<Port(SCRCPY, T_OUTPUT_FL), Port(SCRCPY, T_OUTPUT_FR)>>
        ELSE <<>>)
    \o w.other_ports.outputs

\* the lines of `pw-link -i`
InputPorts(w, F) ==
    (IF SinkVisible(w, F, RECORD_MIX)
     THEN <<Port(RECORD_MIX, T_PLAYBACK_FL), Port(RECORD_MIX, T_PLAYBACK_FR)>>
     ELSE <<>>)
    \o (IF SinkVisible(w, F, MONITOR_MIX)
        THEN <<Port(MONITOR_MIX, T_PLAYBACK_FL),
               Port(MONITOR_MIX, T_PLAYBACK_FR)>>
        ELSE <<>>)
    \o <<Port(SPK, T_PLAYBACK_FL), Port(SPK, T_PLAYBACK_FR)>>
    \o w.other_ports.inputs

\* the links `pw-link -l` lists: the ones the session made and the ones the
\* server made on its own
ListedLinks(w, F) ==
    (IF F_AUTO(Port(SCRCPY, T_OUTPUT_FL), Port(SPK, T_PLAYBACK_FL)) \in F
     THEN <<<<Port(SCRCPY, T_OUTPUT_FL), Port(SPK, T_PLAYBACK_FL)>>>>
     ELSE <<>>)
    \o (IF F_AUTO(Port(RECORD_MIX, T_MONITOR_FL), Port(SPK, T_PLAYBACK_FL))
              \in F
        THEN <<<<Port(RECORD_MIX, T_MONITOR_FL), Port(SPK, T_PLAYBACK_FL)>>>>
        ELSE <<>>)
    \o w._created_links

\* the names of `pactl list sources`: the monitor of every sink, the device
SourceNames(w, F) ==
    (IF w.sinks[RECORD_MIX] # 0 THEN <<RECORD_MIX \o DOT_MONITOR>> ELSE <<>>)
    \o (IF w.sinks[MONITOR_MIX] # 0
        THEN <<MONITOR_MIX \o DOT_MONITOR>> ELSE <<>>)
    \o (IF F_NO_USB \in F THEN <<>> ELSE <<USB_IN>>)

get_default_sink(w, F) ==
    Return(w, IF F_NO_DEFAULT \in F THEN NoName ELSE SPK)

\* returns <<name>> for a source found, <<>> for None; raises when the
\* listing fails (list_sources runs pactl with check=True, nothing catches)
find_usb_audio_source(w, F) ==
    IF F_SOURCES \in F
    THEN [w EXCEPT !.exc = "CalledProcessError"]
    ELSE LET names == SourceNames(w, F)
             first(P(_)) == names[CHOOSE i \in 1..Len(names) :
                                P(names[i]) /\ \A j \in 1..(i - 1) : ~P(names[j])]
             IsAlsaUsb(n) == Contains(S_ALSA_INPUT, n) /\ Contains(S_USB, Lower(n))
             IsUsb(n) == Contains(S_USB, Lower(n))
                         /\ ~Contains(S_MONITOR, Lower(n))
         IN  IF \E i \in 1..Len(names) : IsAlsaUsb(names[i])
             THEN Return(w, <<first(IsAlsaUsb)>>)
             ELSE IF \E i \in 1..Len(names) : IsUsb(names[i])
             THEN Return(w, <<first(IsUsb)>>)
             ELSE Return(w, <<>>)

(***************************************************************************)
(* Virtual sinks.                                                          *)
(***************************************************************************)
\* if not self._cleanup_registered: atexit.register(self.cleanup); ...
register_cleanup(w) ==
    IF w._cleanup_registered THEN w
    ELSE [w EXCEPT !.atexit_hooks = @ + 1, !._cleanup_registered = TRUE]

\* create_virtual_sink without the search of the sink list
create_virtual_sink_without_lookup(w, name, F) ==
    IF F_SINKS \in F
    THEN Return(w, <<NoName, NoId>>)
    ELSE IF F_LOAD(name) \in F
    THEN Return(Emit(w, Ev("load-module", name, <<>>, NoId, FALSE)),
                <<NoName, NoId>>)
    ELSE LET module_id == w.next_module
             w1 == [w EXCEPT !.sinks[name] = module_id,
                             !.next_module = @ + 1]
             w2 == Emit(w1, Ev("load-module", name, <<>>, module_id, TRUE))
         IN  Return(register_cleanup(w2), <<name, module_id>>)

\* returns <<sink name, module id>>
create_virtual_sink(w, name, F) ==
    IF F_SINKS \in F
    THEN Return(w, <<NoName, NoId>>)
    ELSE IF w.sinks[name] # 0
    THEN Return(w, <<name, NoId>>)
    ELSE IF F_LOAD(name) \in F
    THEN Return(Emit(w, Ev("load-module", name, <<>>, NoId, FALSE)),
                <<NoName, NoId>>)
    ELSE LET module_id == w.next_module
             w1 == [w EXCEPT !.sinks[name] = module_id,
                             !.next_module = @ + 1]
             w2 == Emit(w1, Ev("load-module", name, <<>>, module_id, TRUE))
         IN  Return(register_cleanup(w2), <<name, module_id>>)

\* pactl unload-module id; the sink goes away when the command succeeds
UnloadModule(w, id, F) ==
    LET ok == F_UNLOAD \notin F
        w1 == Emit(w, Ev("unload-module", <<>>, <<>>, id, ok))
    IN  [w1 EXCEPT !.unloaded = @ \cup {id},
                   !.sinks = IF ok
                             THEN [n \in SinkNames |->
                                      IF w.sinks[n] = id THEN 0 ELSE w.sinks[n]]
                             ELSE @]

\* remove_virtual_sink without the try/except around unload-module
remove_virtual_sink_uncaught(w, F) ==
    IF w.monitor_sink_id # NoId /\ F_UNLOAD \in F
    THEN [UnloadModule(w, w.monitor_sink_id, F)
             EXCEPT !.exc = "CalledProcessError"]
    ELSE IF w.virtual_sink_id # NoId /\ F_UNLOAD \in F
    THEN [UnloadModule(w, w.virtual_sink_id, F)
             EXCEPT !.exc = "CalledProcessError"]
    ELSE Then(IF w.monitor_sink_id # NoId
              THEN [UnloadModule(w, w.monitor_sink_id, F)
                       EXCEPT !.monitor_sink_id = NoId]
              ELSE w, LAMBDA w1 :
         Then(IF w1.virtual_sink_id # NoId
              THEN [UnloadModule(w1, w1.virtual_sink_id, F)
                       EXCEPT !.virtual_sink_id = NoId]
              ELSE w1, LAMBDA w2 :
         Return(w2, "None")))

remove_virtual_sink(w, F) ==
    Then(IF w.monitor_sink_id # NoId
         THEN [UnloadModule(w, w.monitor_sink_id, F)
                  EXCEPT !.monitor_sink_id = NoId]
         ELSE w, LAMBDA w1 :
    Then(IF w1.virtual_sink_id # NoId
         THEN [UnloadModule(w1, w1.virtual_sink_id, F)
                  EXCEPT !.virtual_sink_id = NoId]
         ELSE w1, LAMBDA w2 :
    Return(w2, "None")))

(***************************************************************************)
(* Port matching.                                                          *)
(***************************************************************************)
\* port.split(":")[-1].upper() if ":" in port else ""
ChannelOf(port) ==
    IF \E i \in 1..Len(port) : port[i] = ":"
    THEN Upper(AfterLastColon(port))
    ELSE <<>>

\* mono test by substring: any tag that contains MON
IsMono_by_substring(ch) == Contains(<<"M","O","N">>, ch)
IsMono(ch) == EndsWith(ch, S__MONO) \/ ch = S_MONO
\* left test that takes every tag without a right suffix for a left one
IsLeft_unless_right(ch) == ~(EndsWith(ch, S__FR) \/ EndsWith(ch, S__R))
IsLeft(ch) == EndsWith(ch, S__FL) \/ EndsWith(ch, S__L)
IsRight(ch) == EndsWith(ch, S__FR) \/ EndsWith(ch, S__R)

\* should_connect of connect_source_to_sink and _connect_source_to_output
ShouldConnect(src_port, dst_port) ==
    LET src_ch == ChannelOf(src_port)
        dst_ch == ChannelOf(dst_port)
    IN  \/ IsMono(src_ch)
        \/ IsMono(dst_ch)
        \/ (IsLeft(src_ch) /\ IsLeft(dst_ch))
        \/ (IsRight(src_ch) /\ IsRight(dst_ch))

\* all <<src, dst>> in the order of the nested loops
RECURSIVE PairsOf(_, _)
PairsOf(source_ports, sink_ports) ==
    IF source_ports = <<>> THEN <<>>
    ELSE [i \in 1..Len(sink_ports) |-> <<Head(source_ports), sink_ports[i]>>]
         \o PairsOf(Tail(source_ports), sink_ports)

\* the nested loops of connect_source_to_sink; w.ret carries `success`
RECURSIVE ConnectPairs(_, _, _)
ConnectPairs(w, pairs, F) ==
    IF pairs = <<>> THEN w
    ELSE LET p == Head(pairs)
             success == w.ret
         IN  IF ShouldConnect(p[1], p[2])
             THEN Then(link_ports(w, p[1], p[2], FALSE, F), LAMBDA w1 :
                  ConnectPairs(Return(w1, success \/ w1.ret),
                               Tail(pairs), F))
             ELSE ConnectPairs(w, Tail(pairs), F)

connect_source_to_sink(w, source_pattern, sink_pattern, F) ==
    LET source_ports == SelectContaining(OutputPorts(w, F), source_pattern)
        sink_ports == SelectContaining(InputPorts(w, F), sink_pattern)
    IN  IF source_ports = <<>> \/ sink_ports = <<>>
        THEN Return(w, FALSE)
        ELSE ConnectPairs(Return(w, FALSE),
                          PairsOf(source_ports, sink_ports), F)

\* get_node_ports: the lines that contain node_name, case-sensitively
RECURSIVE SelectNode(_, _)
SelectNode(s, node_name) ==
    IF s = <<>> THEN <<>>
    ELSE (IF Contains(node_name, Head(s)) THEN <<Head(s)>> ELSE <<>>)
         \o SelectNode(Tail(s), node_name)

\* should_connect of connect_to_virtual_sink: no test of the input for mono
ShouldConnectVirtual(out_port, in_port) ==
    LET out_ch == ChannelOf(out_port)
        in_ch == ChannelOf(in_port)
    IN  \/ IsMono(out_ch)
        \/ (IsLeft(out_ch) /\ IsLeft(in_ch))
        \/ (IsRight(out_ch) /\ IsRight(in_ch))

\* the nested loops of connect_to_virtual_sink; w.ret carries `success`
RECURSIVE ConnectVirtualPairs(_, _, _)
ConnectVirtualPairs(w, pairs, F) ==
    IF pairs = <<>> THEN w
    ELSE LET p == Head(pairs)
             success == w.ret
         IN  IF ShouldConnectVirtual(p[1], p[2])
             THEN Then(link_ports(w, p[1], p[2], FALSE, F), LAMBDA w1 :
                  ConnectVirtualPairs(Return(w1, success /\ w1.ret),
                                      Tail(pairs), F))
             ELSE ConnectVirtualPairs(w, Tail(pairs), F)

connect_to_virtual_sink(w, source_node, virtual_sink, F) ==
    LET outputs == SelectNode(OutputPorts(w, F), source_node)
        inputs == SelectNode(InputPorts(w, F), virtual_sink)
    IN  IF outputs = <<>> \/ inputs = <<>>
        THEN Return(w, FALSE)
        ELSE ConnectVirtualPairs(Return(w, TRUE), PairsOf(outputs, inputs), F)

\* the nested loops of _connect_source_to_output; w.ret carries `success`
RECURSIVE ConnectMonitorPairs(_, _, _)
ConnectMonitorPairs(w, pairs, F) ==
    IF pairs = <<>> THEN w
    ELSE LET p == Head(pairs)
             success == w.ret
         IN  IF ShouldConnect(p[1], p[2])
             THEN Then(link_ports(w, p[1], p[2], TRUE, F), LAMBDA w1 :
                  ConnectMonitorPairs(Return(w1, success \/ w1.ret),
                                      Tail(pairs), F))
             ELSE ConnectMonitorPairs(w, Tail(pairs), F)

_connect_source_to_output(w, source_pattern, sink_pattern, F) ==
    LET source_ports == SelectContaining(OutputPorts(w, F), source_pattern)
        sink_ports == SelectContaining(InputPorts(w, F), sink_pattern)
    IN  IF source_ports = <<>> \/ sink_ports = <<>>
        THEN Return(w, FALSE)
        ELSE ConnectMonitorPairs(Return(w, FALSE),
                                 PairsOf(source_ports, sink_ports), F)

\* port.split("_")[-1] if "_" in port else ""
SuffixOf(port) ==
    IF \E i \in 1..Len(port) : port[i] = "_"
    THEN AfterLast(port, "_")
    ELSE <<>>

\* the nested loops of connect_virtual_sink_to_output; the result of
\* link_ports is only printed
RECURSIVE ConnectOutputPairs(_, _, _)
ConnectOutputPairs(w, pairs, F) ==
    IF pairs = <<>> THEN w
    ELSE LET p == Head(pairs)
         IN  IF SuffixOf(p[1]) = SuffixOf(p[2])
             THEN Then(link_ports(w, p[1], p[2], FALSE, F), LAMBDA w1 :
                  ConnectOutputPairs(w1, Tail(pairs), F))
             ELSE ConnectOutputPairs(w, Tail(pairs), F)

\* target_sink is NoName for None
connect_virtual_sink_to_output(w, virtual_sink, target_sink, F) ==
    LET target == IF target_sink = NoName
                  THEN get_default_sink(w, F).ret
                  ELSE target_sink
        monitor_name == virtual_sink \o DOT_MONITOR
        named == SelectNode(OutputPorts(w, F), monitor_name)
        outputs == IF named = <<>>
                   THEN SelectNode(OutputPorts(w, F), virtual_sink)
                   ELSE named
        inputs == SelectNode(InputPorts(w, F), target)
    IN  IF ~Truthy(target)
        THEN Return(w, FALSE)
        ELSE Return(ConnectOutputPairs(w, PairsOf(outputs, inputs), F), TRUE)

\* the loop of disconnect_from_default_sink; w.ret carries `count`
RECURSIVE DisconnectListed(_, _, _, _, _)
DisconnectListed(w, listed, source_pattern, default_sink, F) ==
    IF listed = <<>> THEN w
    ELSE LET l == Head(listed)
             count == w.ret
         IN  IF ContainsCI(source_pattern, l[1]) /\ ContainsCI(default_sink, l[2])
             THEN Then(unlink_ports(w, l[1], l[2], F), LAMBDA w1 :
                  DisconnectListed(
                      Return(w1, IF w1.ret THEN count + 1 ELSE count),
                      Tail(listed), source_pattern, default_sink, F))
             ELSE DisconnectListed(w, Tail(listed), source_pattern,
                                   default_sink, F)

disconnect_from_default_sink(w, source_pattern, F) ==
    LET default_sink == get_default_sink(w, F).ret
    IN  IF ~Truthy(default_sink)
        THEN Return(w, 0)
        ELSE DisconnectListed(Return(w, 0), ListedLinks(w, F), source_pattern,
                              default_sink, F)

(***************************************************************************)
(* scrcpy.                                                                 *)
(***************************************************************************)
\* returns the process handle, "None" when scrcpy could not be started
start_scrcpy(w, F) ==
    IF w.scrcpy_process # "None"
    THEN Return(w, w.scrcpy_process)
    ELSE IF F_NO_SCRCPY \in F
    THEN Return(w, "None")
    ELSE LET w1 == Emit([w EXCEPT !.scrcpy_process = "running"],
                        Ev("start-scrcpy", <<>>, <<>>, 0, TRUE))
         IN  Return(register_cleanup(w1), "running")

\* stop_scrcpy that terminates the process and keeps the handle
stop_scrcpy_keeps_handle(w) ==
    IF w.scrcpy_process # "None"
    THEN Return(Emit(w, Ev("stop-scrcpy", <<>>, <<>>, 0, TRUE)), "None")
    ELSE Return(w, "None")

stop_scrcpy(w) ==
    IF w.scrcpy_process # "None"
    THEN Return(Emit([w EXCEPT !.scrcpy_process = "None"],
                     Ev("stop-scrcpy", <<>>, <<>>, 0, TRUE)), "None")
    ELSE Return(w, "None")

\* wait_for_node: whether some line of `pw-link -o` contains the pattern
wait_for_node(w, node_pattern, F) ==
    Return(w, SelectContaining(OutputPorts(w, F), node_pattern) # <<>>)

(***************************************************************************)
(* The monitoring state machine.                                           *)
(***************************************************************************)
\* the assignment to self._monitoring_enabled, recorded in cmds
SetMonitoring(w, enabled) ==
    Emit([w EXCEPT !._monitoring_enabled = enabled],
         Ev("monitoring", <<>>, <<>>, IF enabled THEN 1 ELSE 0, TRUE))

\* enable_monitoring without the test of the state
enable_monitoring_unguarded(w, F) ==
    IF ~Truthy(w._monitor_sink_name) \/ ~Truthy(w._default_sink)
    THEN Return(w, "None")
    ELSE Then(set_sink_volume(w, w._monitor_sink_name, 0, F), LAMBDA w1 :
         Then(connect_source_to_sink(w1, w1._monitor_sink_name,
                                     w1._default_sink, F), LAMBDA w2 :
         Then(_fade_sink_only(w2, w2._monitor_sink_name, 0, 100, F),
              LAMBDA w3 :
         Return(SetMonitoring(w3, TRUE), "None"))))

\* enable_monitoring that fades in before it connects
enable_monitoring_fade_first(w, F) ==
    IF w._monitoring_enabled
    THEN Return(w, "None")
    ELSE IF ~Truthy(w._monitor_sink_name) \/ ~Truthy(w._default_sink)
    THEN Return(w, "None")
    ELSE Then(set_sink_volume(w, w._monitor_sink_name, 0, F), LAMBDA w1 :
         Then(_fade_sink_only(w1, w1._monitor_sink_name, 0, 100, F),
              LAMBDA w2 :
         Then(connect_source_to_sink(w2, w2._monitor_sink_name,
                                     w2._default_sink, F), LAMBDA w3 :
         Return(SetMonitoring(w3, TRUE), "None"))))

\* enable_monitoring that tests only the monitor sink, not the default sink
enable_monitoring_no_default_test(w, F) ==
    IF w._monitoring_enabled
    THEN Return(w, "None")
    ELSE IF ~Truthy(w._monitor_sink_name)
    THEN Return(w, "None")
    ELSE Then(set_sink_volume(w, w._monitor_sink_name, 0, F), LAMBDA w1 :
         Then(connect_source_to_sink(w1, w1._monitor_sink_name,
                                     w1._default_sink, F), LAMBDA w2 :
         Then(_fade_sink_only(w2, w2._monitor_sink_name, 0, 100, F),
              LAMBDA w3 :
         Return(SetMonitoring(w3, TRUE), "None"))))

enable_monitoring(w, F) ==
    IF w._monitoring_enabled
    THEN Return(w, "None")
    ELSE IF ~Truthy(w._monitor_sink_name) \/ ~Truthy(w._default_sink)
    THEN Return(w, "None")
    ELSE Then(set_sink_volume(w, w._monitor_sink_name, 0, F), LAMBDA w1 :
         Then(connect_source_to_sink(w1, w1._monitor_sink_name,
                                     w1._default_sink, F), LAMBDA w2 :
         Then(_fade_sink_only(w2, w2._monitor_sink_name, 0, 100, F),
              LAMBDA w3 :
         Return(SetMonitoring(w3, TRUE), "None"))))

\* list.remove(x): drops the first element equal to x
RemoveFirst(s, x) ==
    IF \E i \in 1..Len(s) : s[i] = x
    THEN LET i == CHOOSE j \in 1..Len(s) :
                      s[j] = x /\ \A k \in 1..(j - 1) : s[k] # x
         IN  SubSeq(s, 1, i - 1) \o SubSeq(s, i + 1, Len(s))
    ELSE s

\* the loop of disable_monitoring matching the monitor sink at either end
RECURSIVE DisconnectMonitor_either_end(_, _, _)
DisconnectMonitor_either_end(w, links, F) ==
    IF links = <<>> THEN w
    ELSE LET l == Head(links)
         IN  IF \/ ContainsCI(w._monitor_sink_name, l[1])
                \/ ContainsCI(w._monitor_sink_name, l[2])
             THEN Then(unlink_ports(w, l[1], l[2], F), LAMBDA w1 :
                  DisconnectMonitor_either_end(
                      [w1 EXCEPT !._created_links = RemoveFirst(@, l)],
                      Tail(links), F))
             ELSE DisconnectMonitor_either_end(w, Tail(links), F)

\* the loop of disable_monitoring over a copy of the ledger
RECURSIVE DisconnectMonitor(_, _, _)
DisconnectMonitor(w, links, F) ==
    IF links = <<>> THEN w
    ELSE LET l == Head(links)
         IN  IF /\ ContainsCI(w._monitor_sink_name, l[1])
                /\ Truthy(w._default_sink)
                /\ ContainsCI(w._default_sink, l[2])
             THEN Then(unlink_ports(w, l[1], l[2], F), LAMBDA w1 :
                  DisconnectMonitor(
                      [w1 EXCEPT !._created_links = RemoveFirst(@, l)],
                      Tail(links), F))
             ELSE DisconnectMonitor(w, Tail(links), F)

\* disable_monitoring that removes the links before it fades out
disable_monitoring_unlink_first(w, F) ==
    IF ~w._monitoring_enabled
    THEN Return(w, "None")
    ELSE IF ~Truthy(w._monitor_sink_name)
    THEN Return(w, "None")
    ELSE Then(DisconnectMonitor(w, w._created_links, F), LAMBDA w1 :
         Then(_fade_sink_only(w1, w1._monitor_sink_name, 100, 0, F),
              LAMBDA w2 :
         Return(SetMonitoring(w2, FALSE), "None")))

disable_monitoring(w, F) ==
    IF ~w._monitoring_enabled
    THEN Return(w, "None")
    ELSE IF ~Truthy(w._monitor_sink_name)
    THEN Return(w, "None")
    ELSE Then(_fade_sink_only(w, w._monitor_sink_name, 100, 0, F),
              LAMBDA w1 :
         Then(DisconnectMonitor(w1, w1._created_links, F), LAMBDA w2 :
         Return(SetMonitoring(w2, FALSE), "None")))

\* toggle_monitoring that returns the state it found, not the new one
toggle_monitoring_returns_old_state(w, F) ==
    Then(IF w._monitoring_enabled
         THEN disable_monitoring(w, F)
         ELSE enable_monitoring(w, F), LAMBDA w1 :
    Return(w1, w._monitoring_enabled))

toggle_monitoring(w, F) ==
    Then(IF w._monitoring_enabled
         THEN disable_monitoring(w, F)
         ELSE enable_monitoring(w, F), LAMBDA w1 :
    Return(w1, w1._monitoring_enabled))

(***************************************************************************)
(* setup_recording and cleanup.                                            *)
(***************************************************************************)
\* d[k] = v on a dict
DictSet(d, k, v) ==
    [x \in (DOMAIN d) \cup {k} |-> IF x = k THEN v ELSE d[x]]

Running(w) == w.exc = "none" /\ ~w.returned

\* the numbered statements of setup_recording, in order
SetupStep(w, k, with_scrcpy, with_synth, connect_to_output, F) ==
    CASE k = 1 ->
          \* virtual_sink, self.virtual_sink_id = create_virtual_sink(...)
          Then(create_virtual_sink(w, RECORD_MIX, F), LAMBDA c :
          Then([c EXCEPT !.virtual_sink_id = c.ret[2],
                         !.virtual_sink = c.ret[1]], LAMBDA w1 :
          IF ~Truthy(c.ret[1])
          THEN [w1 EXCEPT !.returned = TRUE]
          ELSE w1))
      [] k = 2 -> [w EXCEPT !._virtual_sink_name = w.virtual_sink]
      [] k = 3 -> set_sink_volume(w, w.virtual_sink, 0, F)
      [] k = 4 -> [w EXCEPT !._default_sink = get_default_sink(w, F).ret]
      [] k = 5 ->
          IF connect_to_output
          THEN Then(create_virtual_sink(w, MONITOR_MIX, F), LAMBDA c :
               Then([c EXCEPT !.monitor_sink_id = c.ret[2]], LAMBDA w1 :
               IF Truthy(c.ret[1])
               THEN set_sink_volume(
                        [w1 EXCEPT !._monitor_sink_name = c.ret[1]],
                        c.ret[1], 0, F)
               ELSE w1))
          ELSE w
      [] k = 6 ->
          IF with_synth
          THEN Then(find_usb_audio_source(w, F), LAMBDA r :
               IF r.exc # "none" THEN r
               ELSE IF r.ret # <<>>
               THEN [r EXCEPT !.sources = DictSet(@, "synth", r.ret[1]),
                              !.synth_name = r.ret[1]]
               ELSE [r EXCEPT !.sources = DictSet(@, "synth", NoName)])
          ELSE [w EXCEPT !.sources = DictSet(@, "synth", NoName)]
      [] k = 7 ->
          IF Truthy(w.synth_name)
          THEN [w EXCEPT !._managed_sources = Append(@, w.synth_name)]
          ELSE w
      [] k = 8 ->
          IF Truthy(w.synth_name)
          THEN set_source_volume(w, w.synth_name, 0, F)
          ELSE w
      [] k = 9 ->
          IF Truthy(w.synth_name)
          THEN connect_source_to_sink(w, w.synth_name, w.virtual_sink, F)
          ELSE w
      [] k = 10 ->
          IF with_scrcpy
          THEN Then(start_scrcpy(w, F), LAMBDA p :
               IF p.ret # "None"
               THEN IF wait_for_node(p, SCRCPY, F).ret
                    THEN Then([p EXCEPT !.sources = DictSet(@, "mic", SCRCPY)],
                              LAMBDA p1 :
                         Then(disconnect_from_default_sink(p1, SCRCPY, F),
                              LAMBDA p2 :
                         connect_to_virtual_sink(p2, SCRCPY,
                                                 p2.virtual_sink, F)))
                    ELSE [p EXCEPT !.sources = DictSet(@, "mic", NoName)]
               ELSE [p EXCEPT !.sources = DictSet(@, "mic", NoName)])
          ELSE [w EXCEPT !.sources = DictSet(@, "mic", NoName)]
      [] k = 11 ->
          Then([w EXCEPT !.sources =
                    DictSet(@, "mix", w.virtual_sink \o DOT_MONITOR)],
               LAMBDA w1 :
          IF /\ connect_to_output
             /\ Truthy(w1._monitor_sink_name)
             /\ Truthy(w1._default_sink)
          THEN Then(disconnect_from_default_sink(w1, w1.virtual_sink, F),
                    LAMBDA w2 :
               Then(connect_source_to_sink(w2, w2.virtual_sink,
                                           w2._monitor_sink_name, F),
                    LAMBDA w3 :
               Then(connect_source_to_sink(w3, w3._monitor_sink_name,
                                           w3._default_sink, F),
                    LAMBDA w4 :
               SetMonitoring(w4, TRUE))))
          ELSE w1)
      [] k = 12 -> fade_in(w, F)
      [] k = 13 ->
          IF w._monitoring_enabled /\ Truthy(w._monitor_sink_name)
          THEN _fade_sink_only(w, w._monitor_sink_name, 0, 100, F)
          ELSE w

\* statement k, and the exception that ends the call after it
SetupStepThenStop(w, k, with_scrcpy, with_synth, connect_to_output, F) ==
    Then(SetupStep(w, k, with_scrcpy, with_synth, connect_to_output, F),
         LAMBDA w1 :
    IF Running(w1) /\ F_STOP(k) \in F
    THEN [w1 EXCEPT !.exc = "KeyboardInterrupt"]
    ELSE w1)

\* setup_recording that does not mute the mix sink before it links
RECURSIVE SetupFrom_without_mute(_, _, _, _, _, _)
SetupFrom_without_mute(w, k, with_scrcpy, with_synth, connect_to_output, F) ==
    IF k > SetupSteps \/ ~Running(w) THEN w
    ELSE IF k = 3
    THEN SetupFrom_without_mute(w, k + 1, with_scrcpy, with_synth,
                                connect_to_output, F)
    ELSE Then(SetupStepThenStop(w, k, with_scrcpy, with_synth,
                                connect_to_output, F), LAMBDA w1 :
         SetupFrom_without_mute(w1, k + 1, with_scrcpy, with_synth,
                                connect_to_output, F))

RECURSIVE SetupFrom(_, _, _, _, _, _)
SetupFrom(w, k, with_scrcpy, with_synth, connect_to_output, F) ==
    IF k > SetupSteps \/ ~Running(w) THEN w
    ELSE Then(SetupStepThenStop(w, k, with_scrcpy, with_synth,
                                connect_to_output, F), LAMBDA w1 :
         SetupFrom(w1, k + 1, with_scrcpy, with_synth, connect_to_output, F))

\* returns the dict `sources`; nothing (here the empty dict) when it raised
setup_recording(w, with_scrcpy, with_synth, connect_to_output, F) ==
    Then(SetupFrom(w, 1, with_scrcpy, with_synth, connect_to_output, F),
         LAMBDA w1 :
    IF w1.exc = "none" THEN Return(w1, w1.sources)
    ELSE Return(w1, <<>>))

\* cleanup that unloads the sinks before it removes the links
cleanup_unload_first(w, F) ==
    Then(IF w._monitoring_enabled /\ Truthy(w._monitor_sink_name)
         THEN _fade_sink_only(w, w._monitor_sink_name, 100, 0, F)
         ELSE w, LAMBDA w1 :
    Then(IF w1._managed_sources # <<>> \/ Truthy(w1._virtual_sink_name)
         THEN fade_out(w1, F)
         ELSE w1, LAMBDA w2 :
    Then(remove_virtual_sink(w2, F), LAMBDA w3 :
    Then(remove_all_links(w3, F), LAMBDA w4 :
    Then(stop_scrcpy(w4), LAMBDA w5 :
    Then([w5 EXCEPT !._managed_sources = <<>>,
                    !._virtual_sink_name = NoName,
                    !._monitor_sink_name = NoName], LAMBDA w6 :
    Return(SetMonitoring(w6, FALSE), "None")))))))

cleanup(w, F) ==
    Then(IF w._monitoring_enabled /\ Truthy(w._monitor_sink_name)
         THEN _fade_sink_only(w, w._monitor_sink_name, 100, 0, F)
         ELSE w, LAMBDA w1 :
    Then(IF w1._managed_sources # <<>> \/ Truthy(w1._virtual_sink_name)
         THEN fade_out(w1, F)
         ELSE w1, LAMBDA w2 :
    Then(remove_all_links(w2, F), LAMBDA w3 :
    Then(stop_scrcpy(w3), LAMBDA w4 :
    Then(remove_virtual_sink(w4, F), LAMBDA w5 :
    Then([w5 EXCEPT !._managed_sources = <<>>,
                    !._virtual_sink_name = NoName,
                    !._monitor_sink_name = NoName], LAMBDA w6 :
    Return(SetMonitoring(w6, FALSE), "None")))))))

(***************************************************************************)
(* The actions: one per public method called on the session.               *)
(***************************************************************************)
\* the faults that the commands and queries of each method can meet
SetupFaults ==
    { f \in FaultKinds :
        f.k \notin {"unload-module fails", "pw-link -d fails"} }
EnableFaults ==
    { F_VOL(MONITOR_MIX), F_LINK_ALL, F_NO_PORTS(MONITOR_MIX),
      F_LINK(Port(MONITOR_MIX, T_MONITOR_FL), Port(SPK, T_PLAYBACK_FL)) }
DisableFaults ==
    { F_VOL(MONITOR_MIX), F_UNLINK_ALL,
      F_UNLINK(Port(MONITOR_MIX, T_MONITOR_FL), Port(SPK, T_PLAYBACK_FL)) }
CleanupFaults ==
    { F_VOL(RECORD_MIX), F_VOL(MONITOR_MIX), F_VOL(USB_IN), F_UNLOAD,
      F_UNLINK_ALL }
    \cup { F_UNLINK(p[1], p[2]) : p \in FaultPairs }

\* the session and the server as the call finds them
Begin == [World EXCEPT !.cmds = <<>>, !.ret = "None", !.exc = "none"]

\* the session, the server and the record of the commands after a statement
StoreWorld(w) ==
    /\ virtual_sink_id' = w.virtual_sink_id
    /\ monitor_sink_id' = w.monitor_sink_id
    /\ scrcpy_process' = w.scrcpy_process
    /\ _cleanup_registered' = w._cleanup_registered
    /\ _created_links' = w._created_links
    /\ _monitor_links' = w._monitor_links
    /\ _managed_sources' = w._managed_sources
    /\ _virtual_sink_name' = w._virtual_sink_name
    /\ _monitor_sink_name' = w._monitor_sink_name
    /\ _default_sink' = w._default_sink
    /\ _monitoring_enabled' = w._monitoring_enabled
    /\ sinks' = w.sinks
    /\ next_module' = w.next_module
    /\ other_ports' = w.other_ports
    /\ unloaded' = w.unloaded
    /\ cmds' = w.cmds
    /\ ret' = w.ret
    /\ exc' = w.exc
    /\ atexit_hooks' = w.atexit_hooks

\* the state after a call, and the record of the call
Store(result, op, args, F) ==
  \E w \in {result} :
    /\ StoreWorld(w)
    /\ call' = [op |-> op, args |-> args, F |-> F]
    /\ flags' = flags
    /\ ncalls' = ncalls + 1
    /\ nfaults' = IF F = {} THEN nfaults ELSE nfaults + 1

\* a call made on the session directly: no script, no second thread
Commit(result, op, args, F) ==
    /\ Store(result, op, args, F)
    /\ UNCHANGED << main, threads >>

\* One call of a method.  Method(w, F) is the method applied to the state w
\* in the environment F.  The environment either behaves, or misbehaves in
\* one way that the method meets (the call would have gone otherwise).
Call(op, args, Method(_, _), kinds) ==
    \E b \in {Begin} : \E good \in {Method(b, {})} :
        \/ Commit(good, op, args, {})
        \/ /\ nfaults < MaxFaults
           /\ \E f \in kinds : \E bad \in {Method(b, {f})} :
                 /\ bad # good
                 /\ Commit(bad, op, args, {f})

Init ==
    /\ virtual_sink_id = NoId
    /\ monitor_sink_id = NoId
    /\ scrcpy_process = "None"
    /\ _cleanup_registered = FALSE
    /\ _created_links = <<>>
    /\ _monitor_links = <<>>
    /\ _managed_sources = <<>>
    /\ _virtual_sink_name = NoName
    /\ _monitor_sink_name = NoName
    /\ _default_sink = NoName
    /\ _monitoring_enabled = FALSE
    /\ sinks \in [SinkNames -> {0, ExternalModule}]
    /\ next_module = 1
    /\ other_ports = NoPorts
    /\ unloaded = {}
    /\ cmds = <<>>
    /\ call = [op |-> "__init__", args |-> <<>>, F |-> {}]
    /\ ret = "None"
    /\ exc = "none"
    /\ flags \in [with_scrcpy : BOOLEAN, with_synth : BOOLEAN,
                  connect_to_output : BOOLEAN]
    /\ ncalls = 0
    /\ nfaults = 0
    /\ atexit_hooks = 0
    /\ main = NoMain
    /\ threads = NoThreads

SetupRecording ==
    /\ ncalls < MaxCalls
    /\ LET Method(w, F) ==
               setup_recording(w, flags.with_scrcpy, flags.with_synth,
                               flags.connect_to_output, F)
       IN  Call("setup_recording",
                <<flags.with_scrcpy, flags.with_synth,
                  flags.connect_to_output>>,
                Method, SetupFaults)

EnableMonitoring ==
    /\ ncalls < MaxCalls
    /\ Call("enable_monitoring", <<>>, enable_monitoring, EnableFaults)

DisableMonitoring ==
    /\ ncalls < MaxCalls
    /\ Call("disable_monitoring", <<>>, disable_monitoring, DisableFaults)

ToggleMonitoring ==
    /\ ncalls < MaxCalls
    /\ Call("toggle_monitoring", <<>>, toggle_monitoring,
            EnableFaults \cup DisableFaults)

Cleanup ==
    /\ ncalls < MaxCalls
    /\ Call("cleanup", <<>>, cleanup, CleanupFaults)

Next ==
    \/ SetupRecording
    \/ EnableMonitoring
    \/ DisableMonitoring
    \/ ToggleMonitoring
    \/ Cleanup

Spec == Init /\ [][Next]_vars

(***************************************************************************)
(* Vocabulary of the properties.                                           *)
(***************************************************************************)
\* the fields of the session object
SessionFields ==
    << virtual_sink_id, monitor_sink_id, scrcpy_process, _cleanup_registered,
       _created_links, _monitor_links, _managed_sources, _virtual_sink_name,
       _monitor_sink_name, _default_sink, _monitoring_enabled >>

VolumeSets == {"set-sink-volume", "set-source-volume"}

\* positions in the command record s of the commands named in kinds
At(s, kinds) == { i \in 1..Len(s) : s[i].c \in kinds }

\* every position of `before` precedes every position of `after`
Precede(before, after) == \A i \in before : \A j \in after : i < j

\* the module ids that load-module has returned to the session
LoadedIds == 1..(next_module - 1)

\* the ledger entries between two nodes, left and right channel
Stereo(src, src_tag, dst) ==
    { <<Port(src, src_tag \o S__FL), Port(dst, T_PLAYBACK_FL)>>,
      <<Port(src, src_tag \o S__FR), Port(dst, T_PLAYBACK_FR)>> }

Range(s) == { s[i] : i \in 1..Len(s) }

(***************************************************************************)
(* C1.  After a run of setup_recording, enable_monitoring,                 *)
(* disable_monitoring, toggle_monitoring and cleanup calls that ends with  *)
(* cleanup, unload-module has been issued for the module id of every sink  *)
(* the session loaded, and it has never been issued for a sink that        *)
(* create_virtual_sink found.  Stated for the runs in which every command  *)
(* succeeds.  The first half fails: a second setup_recording finds the     *)
(* session's own sinks and overwrites their module ids with None.          *)
(***************************************************************************)
C1_LoadedSinksUnloaded ==
    (call.op = "cleanup" /\ nfaults = 0) =>
        /\ LoadedIds \subseteq unloaded
        /\ ExternalModule \notin unloaded

(***************************************************************************)
(* C4.  cleanup never raises, whatever state it starts in and whichever of *)
(* its commands fail; a cleanup that follows a cleanup issues no           *)
(* volume-set, unlink, process-stop or unload-module command and changes   *)
(* no field of the session.                                                *)
(***************************************************************************)
C4_CleanupSafeAndIdempotent ==
    [][ call'.op = "cleanup" =>
          /\ exc' = "none"
          /\ ret' = "None"
          /\ call.op = "cleanup" =>
                /\ At(cmds', VolumeSets \cup {"unlink", "stop-scrcpy",
                                              "unload-module"}) = {}
                /\ SessionFields' = SessionFields ]_vars

\* a cleanup of a session whose setup_recording was interrupted, during
\* which a command failed
C4_Witness ==
    /\ call.op = "cleanup"
    /\ call.F # {}
    /\ exc = "none"
    /\ \E i \in 1..Len(cmds) : ~cmds[i].ok
    /\ At(cmds, {"unload-module"}) # {}

(***************************************************************************)
(* C5.  After cleanup the session is empty: both ledgers are empty, there  *)
(* is no managed source, no mix or monitor sink name, no module id, no     *)
(* scrcpy handle, and monitoring is Disabled.                              *)
(***************************************************************************)
C5_CleanupEmptiesSession ==
    call.op = "cleanup" =>
        /\ _created_links = <<>>
        /\ _monitor_links = <<>>
        /\ _managed_sources = <<>>
        /\ _virtual_sink_name = NoName
        /\ _monitor_sink_name = NoName
        /\ virtual_sink_id = NoId
        /\ monitor_sink_id = NoId
        /\ scrcpy_process = "None"
        /\ ~_monitoring_enabled

\* a cleanup that had links to remove, a sink to unload and scrcpy to stop
C5_Witness ==
    /\ call.op = "cleanup"
    /\ At(cmds, {"unlink"}) # {}
    /\ At(cmds, {"unload-module"}) # {}
    /\ At(cmds, {"stop-scrcpy"}) # {}
    /\ _created_links = <<>>
    /\ unloaded # {}

\* the links of the recording path and of the monitor path
C6_Links ==
    { <<Port(USB_IN, T_CAPTURE_MONO), Port(RECORD_MIX, T_PLAYBACK_FL)>>,
      <<Port(USB_IN, T_CAPTURE_MONO), Port(RECORD_MIX, T_PLAYBACK_FR)>> }
    \cup Stereo(RECORD_MIX, S_MONITOR, MONITOR_MIX)
    \cup Stereo(MONITOR_MIX, S_MONITOR, SPK)

(***************************************************************************)
(* C6.  setup_recording(with_scrcpy=False, with_synth=True,                *)
(* connect_to_output=True) during which every command succeeds ends with:  *)
(* the last volume commanded for record_mix is 100; the ledger holds the   *)
(* links capture device -> record_mix, record_mix -> monitor_mix and       *)
(* monitor_mix -> default sink; monitoring is Enabled; the capture device  *)
(* is a managed source; the returned map has the device under "synth" and  *)
(* "record_mix.monitor" under "mix".                                       *)
(***************************************************************************)
C6_SetupHappyPath ==
    ( /\ call.op = "setup_recording"
      /\ call.args = <<FALSE, TRUE, TRUE>>
      /\ call.F = {} ) =>
        /\ exc = "none"
        /\ LET mix == { i \in At(cmds, {"set-sink-volume"}) :
                            cmds[i].a = RECORD_MIX }
           IN  /\ mix # {}
               /\ \A i \in mix : (\A j \in mix : j <= i) => cmds[i].v = 100
        /\ C6_Links \subseteq Range(_created_links)
        /\ _monitoring_enabled
        /\ \E i \in 1..Len(_managed_sources) : _managed_sources[i] = USB_IN
        /\ {"synth", "mix"} \subseteq DOMAIN ret
        /\ ret["synth"] = USB_IN
        /\ ret["mix"] = RECORD_MIX \o DOT_MONITOR

\* the first call on a fresh session, the server holding no sink yet
C6_Witness ==
    /\ call.op = "setup_recording"
    /\ call.args = <<FALSE, TRUE, TRUE>>
    /\ call.F = {}
    /\ ncalls = 1
    /\ virtual_sink_id = 1
    /\ monitor_sink_id = 2
    /\ Len(_created_links) = 6
    /\ _monitoring_enabled

(***************************************************************************)
(* The ledger on its own: link_ports and remove_all_links called directly  *)
(* on a session.                                                           *)
(***************************************************************************)
LedgerOutputs == { Port(USB_IN, T_CAPTURE_MONO), Port(MONITOR_MIX, T_MONITOR_FL) }
LedgerInputs == { Port(RECORD_MIX, T_PLAYBACK_FL), Port(SPK, T_PLAYBACK_FL) }

LinkPorts ==
    /\ ncalls < MaxCalls
    /\ \E output_port \in LedgerOutputs, input_port \in LedgerInputs,
          is_monitor_link \in BOOLEAN :
           LET Method(w, F) == link_ports(w, output_port, input_port,
                                          is_monitor_link, F)
           IN  Call("link_ports",
                    <<output_port, input_port, is_monitor_link>>,
                    Method, {F_LINK(output_port, input_port)})

RemoveAllLinks ==
    /\ ncalls < MaxCalls
    /\ Call("remove_all_links", <<>>, remove_all_links,
            {F_UNLINK_ALL}
            \cup { F_UNLINK(o, i) : o \in LedgerOutputs, i \in LedgerInputs })

InitLedger ==
    /\ Init
    /\ sinks = [n \in SinkNames |-> 0]
    /\ flags = [with_scrcpy |-> FALSE, with_synth |-> FALSE,
                connect_to_output |-> FALSE]

NextLedger ==
    \/ LinkPorts
    \/ RemoveAllLinks

SpecLedger == InitLedger /\ [][NextLedger]_vars

(***************************************************************************)
(* C2.  Every call link_ports(out, in, is_monitor_link) runs pw-link once. *)
(* When pw-link fails the call returns False and leaves _created_links and *)
(* _monitor_links as they were.  When it succeeds the call returns True,   *)
(* appends one <<out, in>> to _created_links, and one to _monitor_links    *)
(* exactly when is_monitor_link is set.                                    *)
(***************************************************************************)
C2_LinkPortsLedger ==
    [][ call'.op = "link_ports" =>
          LET l == <<call'.args[1], call'.args[2]>>
          IN  /\ Len(cmds') = 1
              /\ cmds'[1].c = "link"
              /\ <<cmds'[1].a, cmds'[1].b>> = l
              /\ exc' = "none"
              /\ IF cmds'[1].ok
                 THEN /\ ret' = TRUE
                      /\ _created_links' = Append(_created_links, l)
                      /\ _monitor_links' =
                             IF call'.args[3]
                             THEN Append(_monitor_links, l)
                             ELSE _monitor_links
                 ELSE /\ ret' = FALSE
                      /\ _created_links' = _created_links
                      /\ _monitor_links' = _monitor_links ]_vars

\* a failed link_ports on a session whose ledgers hold earlier links
C2_Witness ==
    /\ call.op = "link_ports"
    /\ ret = FALSE
    /\ _created_links # <<>>
    /\ _monitor_links # <<>>
    /\ Len(_monitor_links) < Len(_created_links)

(***************************************************************************)
(* C3.  After remove_all_links the ledger is empty, whether the unlink     *)
(* commands succeeded or failed; it issues one unlink per ledger entry, so *)
(* a remove_all_links that follows a remove_all_links issues no unlink,    *)
(* and the ledger stays empty.                                             *)
(***************************************************************************)
C3_RemoveAllLinksIdempotent ==
    [][ call'.op = "remove_all_links" =>
          /\ _created_links' = <<>>
          /\ Len(cmds') = Len(_created_links)
          /\ \A i \in 1..Len(cmds') :
                /\ cmds'[i].c = "unlink"
                /\ <<cmds'[i].a, cmds'[i].b>> = _created_links[i]
          /\ call.op = "remove_all_links" => cmds' = <<>> ]_vars

\* a remove_all_links one of whose unlink commands failed
C3_Witness ==
    /\ call.op = "remove_all_links"
    /\ Len(cmds) = 2
    /\ \E i \in 1..Len(cmds) : ~cmds[i].ok
    /\ \E i \in 1..Len(cmds) : cmds[i].ok
    /\ _created_links = <<>>

\* the order of the record s of a disable_monitoring on the monitor sink
C7_Order(s, sink) ==
    LET vol == At(s, VolumeSets)
        unl == At(s, {"unlink"})
        mon == At(s, {"monitoring"})
    IN  /\ vol # {}
        /\ \A i \in vol : s[i].c = "set-sink-volume" /\ s[i].a = sink
        /\ \A i \in vol : (\A j \in vol : i <= j) => s[i].v = 100
        /\ \A i \in vol : (\A j \in vol : j <= i) => s[i].v = 0
        /\ \A i \in vol : \A j \in vol : i < j => s[i].v >= s[j].v
        /\ Precede(vol, unl)
        /\ Precede(unl, mon)
        /\ mon = {Len(s)}
        /\ s[Len(s)].v = 0

(***************************************************************************)
(* C7.  A disable_monitoring that starts in state Enabled (called directly *)
(* or through toggle_monitoring) runs the ramp of the monitor sink from    *)
(* 100 to 0 first: its last volume-set, of value 0, comes before the first *)
(* unlink; monitoring becomes Disabled after the last unlink.              *)
(***************************************************************************)
C7_DisableFadesBeforeUnlink ==
    [][ ( /\ call'.op \in {"disable_monitoring", "toggle_monitoring"}
          /\ _monitoring_enabled ) =>
          /\ C7_Order(cmds', _monitor_sink_name)
          /\ ~_monitoring_enabled' ]_vars

\* a disable_monitoring that had links to remove
C7_Witness ==
    /\ call.op = "disable_monitoring"
    /\ At(cmds, {"unlink"}) # {}
    /\ At(cmds, VolumeSets) # {}
    /\ ~_monitoring_enabled

\* the record s holds no volume-set, link or unlink command
C8_Quiet(s) == At(s, VolumeSets \cup {"link", "unlink"}) = {}

(***************************************************************************)
(* C8.  enable_monitoring in state Enabled and disable_monitoring in state *)
(* Disabled issue no volume-set, link or unlink command and leave the      *)
(* ledger and the monitoring state as they were; of two enable_monitoring  *)
(* calls in a row at most the first runs the connect and fade sequence.    *)
(***************************************************************************)
C8_RepeatedTransitionIsNoOp ==
    [][ /\ ( \/ call'.op = "enable_monitoring" /\ _monitoring_enabled
             \/ call'.op = "disable_monitoring" /\ ~_monitoring_enabled ) =>
               /\ C8_Quiet(cmds')
               /\ _created_links' = _created_links
               /\ _monitoring_enabled' = _monitoring_enabled
        /\ ( /\ call.op = "enable_monitoring"
             /\ call'.op = "enable_monitoring"
             /\ ~C8_Quiet(cmds) ) => C8_Quiet(cmds') ]_vars

\* an enable_monitoring called in state Enabled: it did nothing
C8_Witness ==
    /\ call.op = "enable_monitoring"
    /\ _monitoring_enabled
    /\ cmds = <<>>
    /\ _created_links # <<>>

\* the order of the record s of an enable_monitoring that connects the
\* monitor sink to the default sink out
C9_Order(s, sink, out) ==
    LET vol == At(s, VolumeSets)
        ramp == vol \ {1}
        lnk == At(s, {"link"})
        mon == At(s, {"monitoring"})
    IN  /\ Len(s) >= 1
        /\ s[1].c = "set-sink-volume" /\ s[1].a = sink /\ s[1].v = 0
        /\ \A i \in lnk : /\ ContainsCI(sink, s[i].a)
                          /\ ContainsCI(out, s[i].b)
        /\ Precede({1}, lnk)
        /\ Precede(lnk, ramp)
        /\ ramp # {}
        /\ \A i \in ramp : s[i].c = "set-sink-volume" /\ s[i].a = sink
        /\ \A i \in ramp : (\A j \in ramp : i <= j) => s[i].v = 0
        /\ \A i \in ramp : (\A j \in ramp : j <= i) => s[i].v = 100
        /\ \A i \in ramp : \A j \in ramp : i < j => s[i].v <= s[j].v
        /\ Precede(ramp, mon)
        /\ mon = {Len(s)}
        /\ s[Len(s)].v = 1
        /\ At(s, {"unlink"}) = {}

(***************************************************************************)
(* C9.  An enable_monitoring that starts in state Disabled with a monitor  *)
(* sink and a default sink configured (called directly or through          *)
(* toggle_monitoring) issues its commands in this order: volume 0 on the   *)
(* monitor sink, then the link commands, all of them from a port of the    *)
(* monitor sink to a port of the default sink, then the ramp from 0 to     *)
(* 100; monitoring becomes Enabled after the last volume-set, of value     *)
(* 100.  When nothing fails the link commands are those of the left and    *)
(* the right channel.                                                      *)
(***************************************************************************)
C9_EnableOrder ==
    [][ ( /\ call'.op \in {"enable_monitoring", "toggle_monitoring"}
          /\ ~_monitoring_enabled
          /\ Truthy(_monitor_sink_name)
          /\ Truthy(_default_sink) ) =>
          /\ C9_Order(cmds', _monitor_sink_name, _default_sink)
          /\ _monitoring_enabled'
          /\ call'.F = {} =>
                { <<cmds'[i].a, cmds'[i].b>> : i \in At(cmds', {"link"}) }
                    = Stereo(_monitor_sink_name, S_MONITOR, _default_sink) ]_vars

\* an enable_monitoring that made both links and ended Enabled
C9_Witness ==
    /\ call.op = "enable_monitoring"
    /\ _monitoring_enabled
    /\ Cardinality(At(cmds, {"link"})) = 2
    /\ \A i \in At(cmds, {"link"}) : cmds[i].ok

(***************************************************************************)
(* C10.  enable_monitoring called in state Disabled when the session has   *)
(* no monitor sink name or no default sink ends with monitoring still      *)
(* Disabled and the ledger as it was, issues no volume-set and no link     *)
(* command, and does not raise.                                            *)
(***************************************************************************)
C10_EnableWithoutSinksIsNoOp ==
    [][ ( /\ call'.op = "enable_monitoring"
          /\ ~_monitoring_enabled
          /\ (~Truthy(_monitor_sink_name) \/ ~Truthy(_default_sink)) ) =>
          /\ ~_monitoring_enabled'
          /\ _created_links' = _created_links
          /\ At(cmds', VolumeSets \cup {"link"}) = {}
          /\ exc' = "none" ]_vars

\* enable_monitoring on a session that has a monitor sink and no default
\* sink
C10_Witness ==
    /\ call.op = "enable_monitoring"
    /\ ~_monitoring_enabled
    /\ cmds = <<>>
    /\ Truthy(_monitor_sink_name)
    /\ ~Truthy(_default_sink)

\* the port belongs to the node: its name is the node's name, a colon, a tag
BelongsTo(port, node) ==
    /\ Truthy(node)
    /\ Len(port) > Len(node)
    /\ SubSeq(port, 1, Len(node) + 1) = node \o <<":">>

\* the <<out, in>> pairs of the commands of kind c in the record s
PairsAt(s, c) == { <<s[i].a, s[i].b>> : i \in At(s, {c}) }

(***************************************************************************)
(* C11.  disable_monitoring from state Enabled removes from the ledger     *)
(* exactly the entries that were recorded with is_monitor_link=True (the   *)
(* entries of _monitor_links) whose output port belongs to the monitor     *)
(* sink and whose input port belongs to the default sink; it issues an     *)
(* unlink for exactly those entries and every other entry stays.  This     *)
(* fails: the code selects by name only, and the links setup_recording     *)
(* makes from the monitor sink to the default sink are recorded with       *)
(* is_monitor_link=False.                                                  *)
(***************************************************************************)
C11_DisableRemovesTaggedLinks ==
    [][ ( /\ call'.op = "disable_monitoring"
          /\ _monitoring_enabled ) =>
          LET tagged == { l \in Range(_created_links) :
                            /\ l \in Range(_monitor_links)
                            /\ BelongsTo(l[1], _monitor_sink_name)
                            /\ BelongsTo(l[2], _default_sink) }
          IN  /\ PairsAt(cmds', "unlink") = tagged
              /\ Range(_created_links') = Range(_created_links) \ tagged ]_vars

(***************************************************************************)
(* C12.  toggle_monitoring runs disable_monitoring when the state is       *)
(* Enabled (no link command, the state ends Disabled) and                  *)
(* enable_monitoring when it is Disabled (no unlink command; nothing at    *)
(* all when no monitor sink or default sink is configured); it never       *)
(* raises and its return value is the monitoring state after the call.     *)
(* With a monitor sink and a default sink configured every toggle flips    *)
(* the state and keeps both names, so the second of two consecutive        *)
(* toggles ends in the state the first one started in, the opposite of     *)
(* what the first returned.                                                *)
(***************************************************************************)
C12_ToggleDispatchesAndReturnsState ==
    [][ call'.op = "toggle_monitoring" =>
          LET configured == Truthy(_monitor_sink_name) /\ Truthy(_default_sink)
          IN  /\ exc' = "none"
              /\ ret' = _monitoring_enabled'
              /\ _monitoring_enabled =>
                    /\ At(cmds', {"link"}) = {}
                    /\ C7_Order(cmds', _monitor_sink_name)
              /\ (~_monitoring_enabled /\ configured) =>
                    C9_Order(cmds', _monitor_sink_name, _default_sink)
              /\ (~_monitoring_enabled /\ ~configured) =>
                    cmds' = <<>> /\ ~_monitoring_enabled'
              /\ configured =>
                    /\ _monitoring_enabled' = ~_monitoring_enabled
                    /\ _monitor_sink_name' = _monitor_sink_name
                    /\ _default_sink' = _default_sink
              /\ (configured /\ call.op = "toggle_monitoring") =>
                    /\ ret = _monitoring_enabled
                    /\ _monitoring_enabled' = ~ret
                    /\ ret' = ~ret ]_vars

\* the second of two consecutive toggles on a configured session, back in
\* state Enabled with the links to the default sink made again
C12_Witness ==
    /\ call.op = "toggle_monitoring"
    /\ ncalls = 3
    /\ Truthy(_monitor_sink_name)
    /\ Truthy(_default_sink)
    /\ ret = TRUE
    /\ _monitoring_enabled
    /\ Cardinality(At(cmds, {"link"})) = 2

\* the order of the record s of a cleanup that started with the monitoring
\* state enabled, the monitor sink monitor, the ledger links and ids sinks
\* to unload
C20_Order(s, enabled, monitor, fading, links, ids) ==
    LET vol == At(s, VolumeSets)
        ramp1 == { i \in vol : /\ enabled
                               /\ s[i].c = "set-sink-volume"
                               /\ s[i].a = monitor }
        ramp2 == vol \ ramp1
        unl == At(s, {"unlink"})
        stop == At(s, {"stop-scrcpy"})
        unload == At(s, {"unload-module"})
        clear == At(s, {"monitoring"})
        stages == <<ramp1, ramp2, unl, stop, unload, clear>>
        last(set) == CHOOSE i \in set : \A j \in set : j <= i
    IN  /\ \A a \in 1..6 : \A b \in (a + 1)..6 : Precede(stages[a], stages[b])
        /\ (enabled /\ Truthy(monitor)) <=> (ramp1 # {})
        /\ ramp1 # {} => s[last(ramp1)].v = 0
        /\ fading <=> (ramp2 # {})
        /\ ramp2 # {} => s[last(ramp2)].v = 0
        /\ Cardinality(unl) = Len(links)
        /\ Cardinality(unload) = ids
        /\ clear = {Len(s)}
        /\ s[Len(s)].v = 0

(***************************************************************************)
(* C20.  In every cleanup the commands appear in this order: the ramp of   *)
(* the monitor sink to 0 (only when monitoring is Enabled), the ramp to 0  *)
(* of the managed sources and the mix sink, one unlink per ledger entry,   *)
(* the stop of scrcpy, one unload-module per owned sink, and last the      *)
(* clearing of the session state.  No unlink comes before the last         *)
(* volume-set and no unload-module before the last unlink.                 *)
(***************************************************************************)
C20_CleanupOrder ==
    [][ call'.op = "cleanup" =>
          C20_Order(cmds', _monitoring_enabled, _monitor_sink_name,
                    _managed_sources # <<>> \/ Truthy(_virtual_sink_name),
                    _created_links,
                    Cardinality({virtual_sink_id, monitor_sink_id} \ {NoId}))
      ]_vars

\* a cleanup that ran every stage: both ramps, unlinks, the stop of scrcpy
\* and an unload-module
C20_Witness ==
    /\ call.op = "cleanup"
    /\ \E i \in At(cmds, {"set-sink-volume"}) : cmds[i].a = MONITOR_MIX
    /\ \E i \in At(cmds, {"set-sink-volume"}) : cmds[i].a = RECORD_MIX
    /\ At(cmds, {"set-source-volume"}) # {}
    /\ At(cmds, {"unlink"}) # {}
    /\ At(cmds, {"stop-scrcpy"}) # {}
    /\ At(cmds, {"unload-module"}) # {}

(***************************************************************************)
(* Port matching on its own: the four routines that connect two nodes,     *)
(* called directly on a session, between a source node and a sink node     *)
(* whose ports the server lists.                                           *)
(***************************************************************************)
\* the channel tags the ports of the two nodes are drawn from, in the order
\* in which the server lists them
OutTags == <<T_CAPTURE_MONO, T_MONITOR_FL, T_OUTPUT_FR, T_MONITOR>>
InTags == <<T_MONO, T_PLAYBACK_FL, T_PLAYBACK_FR, T_MONITOR>>

\* the port lists a node can show: no port, one port, two ports
PortLists(node, tags) ==
    {<<>>}
    \cup { <<Port(node, tags[i])>> : i \in 1..Len(tags) }
    \cup UNION { { <<Port(node, tags[i]), Port(node, tags[j])>> :
                      j \in (i + 1)..Len(tags) } : i \in 1..Len(tags) }

ConnectSourceToSink ==
    /\ ncalls < MaxMatchCalls
    /\ LET Method(w, F) == connect_source_to_sink(w, MIC, HDMI, F)
       IN  Call("connect_source_to_sink", <<MIC, HDMI>>, Method, {F_LINK_ALL})

ConnectToVirtualSink ==
    /\ ncalls < MaxMatchCalls
    /\ LET Method(w, F) == connect_to_virtual_sink(w, MIC, HDMI, F)
       IN  Call("connect_to_virtual_sink", <<MIC, HDMI>>, Method,
                {F_LINK_ALL})

ConnectSourceToOutput ==
    /\ ncalls < MaxMatchCalls
    /\ LET Method(w, F) == _connect_source_to_output(w, MIC, HDMI, F)
       IN  Call("_connect_source_to_output", <<MIC, HDMI>>, Method,
                {F_LINK_ALL})

ConnectVirtualSinkToOutput ==
    /\ ncalls < MaxMatchCalls
    /\ \E target_sink \in {NoName, HDMI} :
           LET Method(w, F) ==
                   connect_virtual_sink_to_output(w, MIC, target_sink, F)
           IN  Call("connect_virtual_sink_to_output", <<MIC, target_sink>>,
                    Method, {F_LINK_ALL, F_NO_DEFAULT})

InitMatch ==
    /\ virtual_sink_id = NoId
    /\ monitor_sink_id = NoId
    /\ scrcpy_process = "None"
    /\ _cleanup_registered = FALSE
    /\ _created_links = <<>>
    /\ _monitor_links = <<>>
    /\ _managed_sources = <<>>
    /\ _virtual_sink_name = NoName
    /\ _monitor_sink_name = NoName
    /\ _default_sink = NoName
    /\ _monitoring_enabled = FALSE
    /\ sinks = [n \in SinkNames |-> 0]
    /\ next_module = 1
    /\ other_ports \in [outputs : PortLists(MIC, OutTags),
                        inputs : PortLists(HDMI, InTags)]
    /\ unloaded = {}
    /\ cmds = <<>>
    /\ call = [op |-> "__init__", args |-> <<>>, F |-> {}]
    /\ ret = "None"
    /\ exc = "none"
    /\ flags = [with_scrcpy |-> FALSE, with_synth |-> FALSE,
                connect_to_output |-> FALSE]
    /\ ncalls = 0
    /\ nfaults = 0
    /\ atexit_hooks = 0
    /\ main = NoMain
    /\ threads = NoThreads

NextMatch ==
    \/ ConnectSourceToSink
    \/ ConnectToVirtualSink
    \/ ConnectSourceToOutput
    \/ ConnectVirtualSinkToOutput

SpecMatch == InitMatch /\ [][NextMatch]_vars

\* the three routines that match ports by channel
MatchRoutines ==
    {"connect_source_to_sink", "connect_to_virtual_sink",
     "_connect_source_to_output"}

\* the class of each channel tag of OutTags and InTags, as the connection
\* rule of the specification reads them
TagClass ==
    [t \in {T_CAPTURE_MONO, T_MONO, T_MONITOR_FL, T_PLAYBACK_FL, T_OUTPUT_FR,
            T_PLAYBACK_FR, T_MONITOR} |->
        CASE t \in {T_CAPTURE_MONO, T_MONO} -> "Mono"
          [] t \in {T_MONITOR_FL, T_PLAYBACK_FL} -> "Left"
          [] t \in {T_OUTPUT_FR, T_PLAYBACK_FR} -> "Right"
          [] OTHER -> "Other"]

ClassOf(port) == TagClass[AfterLastColon(port)]

\* the connection rule on a pair p = <<output port, input port>>
RuleConnects(p) ==
    \/ ClassOf(p[1]) = "Mono"
    \/ ClassOf(p[2]) = "Mono"
    \/ ClassOf(p[1]) = "Left" /\ ClassOf(p[2]) = "Left"
    \/ ClassOf(p[1]) = "Right" /\ ClassOf(p[2]) = "Right"

\* the <<output port, input port>> of the link commands of s, in order
LinksTried(s) ==
    LET at == At(s, {"link"})
        nth(k) == CHOOSE i \in at : Cardinality({j \in at : j <= i}) = k
    IN  [k \in 1..Cardinality(at) |-> <<s[nth(k)].a, s[nth(k)].b>>]

\* every output port of the source node paired with every input port of the
\* sink node, outputs first
AllPairs ==
    [k \in 1..(Len(other_ports.outputs) * Len(other_ports.inputs)) |->
        << other_ports.outputs[((k - 1) \div Len(other_ports.inputs)) + 1],
           other_ports.inputs[((k - 1) % Len(other_ports.inputs)) + 1] >>]

(***************************************************************************)
(* C13.  For every output port o and input port i of the two nodes, each   *)
(* of connect_source_to_sink, connect_to_virtual_sink and                  *)
(* _connect_source_to_output runs pw-link for (o, i) if and only if o is   *)
(* Mono, or i is Mono, or both are Left, or both are Right; every matching *)
(* pair is tried, once, in the order of the lists.  This fails for         *)
(* connect_to_virtual_sink: it does not test whether the input is Mono.    *)
(***************************************************************************)
C13_ConnectionRule ==
    [][ call'.op \in MatchRoutines =>
          LinksTried(cmds') = SelectSeq(AllPairs, RuleConnects) ]_vars

\* the pair has a port of class Other and no port of class Mono
OtherWithoutMono(p) ==
    /\ "Other" \in {ClassOf(p[1]), ClassOf(p[2])}
    /\ "Mono" \notin {ClassOf(p[1]), ClassOf(p[2])}

\* the pair has a port of class Other
WithOther(p) == "Other" \in {ClassOf(p[1]), ClassOf(p[2])}

\* the entries the step appends to the ledger
Appended == SubSeq(_created_links', Len(_created_links) + 1,
                   Len(_created_links'))

(***************************************************************************)
(* C14 as stated.  No port-matching routine runs pw-link for a pair in     *)
(* which the output port or the input port is of class Other, and no such  *)
(* pair enters the ledger.  This fails: a Mono port is linked to every     *)
(* port of the other side, whatever its class.                             *)
(***************************************************************************)
C14_OtherNeverConnects ==
    [][ call'.op \in MatchRoutines =>
          /\ \A p \in Range(LinksTried(cmds')) : ~WithOther(p)
          /\ \A p \in Range(Appended) : ~WithOther(p) ]_vars

(***************************************************************************)
(* C14 as amended.  connect_source_to_sink, connect_to_virtual_sink and    *)
(* _connect_source_to_output run pw-link for a pair in which the output    *)
(* port or the input port is of class Other only when the other port of    *)
(* the pair is Mono; no pair of an Other port and a Left, Right or Other   *)
(* port is tried or enters the ledger.                                     *)
(***************************************************************************)
C14_OtherConnectsOnlyToMono ==
    [][ call'.op \in MatchRoutines =>
          /\ _created_links' = _created_links \o Appended
          /\ \A p \in Range(LinksTried(cmds')) : ~OtherWithoutMono(p)
          /\ \A p \in Range(Appended) : ~OtherWithoutMono(p) ]_vars

\* a call on a source node with a port tagged monitor and a Left port and a
\* sink node with a Mono port and a Left port: the monitor port was linked
\* to the Mono port and to nothing else
C14_Witness ==
    /\ call.op = "connect_source_to_sink"
    /\ other_ports.outputs = <<Port(MIC, T_MONITOR_FL), Port(MIC, T_MONITOR)>>
    /\ other_ports.inputs = <<Port(HDMI, T_MONO), Port(HDMI, T_PLAYBACK_FL)>>
    /\ <<Port(MIC, T_MONITOR), Port(HDMI, T_MONO)>> \in Range(_created_links)
    /\ <<Port(MIC, T_MONITOR), Port(HDMI, T_PLAYBACK_FL)>>
           \notin PairsAt(cmds, "link")

(***************************************************************************)
(* C15.  A channel tag is classified Mono only when it equals MONO or ends *)
(* with _MONO, compared without regard to case: an output port tagged      *)
(* capture_MONO is linked to every input port.  A port tagged monitor or   *)
(* monitor_FL is never classified Mono: an output port tagged monitor is   *)
(* linked to Mono input ports only, one tagged monitor_FL to Mono and Left *)
(* input ports only, and an input port tagged monitor is linked from Mono  *)
(* output ports only.                                                      *)
(***************************************************************************)
C15_MonitorIsNotMono ==
    [][ call'.op \in MatchRoutines =>
          LET tried == PairsAt(cmds', "link")
              tag(port) == AfterLastColon(port)
          IN  /\ \A o \in Range(other_ports.outputs) :
                    \A i \in Range(other_ports.inputs) :
                        tag(o) = T_CAPTURE_MONO => <<o, i>> \in tried
              /\ \A p \in tried :
                    /\ tag(p[1]) = T_MONITOR => tag(p[2]) = T_MONO
                    /\ tag(p[1]) = T_MONITOR_FL =>
                           tag(p[2]) \in {T_MONO, T_PLAYBACK_FL}
                    /\ tag(p[2]) = T_MONITOR => tag(p[1]) = T_CAPTURE_MONO
      ]_vars

\* a call on a source node with the ports monitor_FL and monitor and a sink
\* node with the ports playback_FL and playback_FR: one link, left to left
C15_Witness ==
    /\ call.op \in MatchRoutines
    /\ other_ports.outputs = <<Port(MIC, T_MONITOR_FL), Port(MIC, T_MONITOR)>>
    /\ other_ports.inputs =
           <<Port(HDMI, T_PLAYBACK_FL), Port(HDMI, T_PLAYBACK_FR)>>
    /\ PairsAt(cmds, "link") =
           { <<Port(MIC, T_MONITOR_FL), Port(HDMI, T_PLAYBACK_FL)>> }

(***************************************************************************)
(* C16.  Whenever the list of output ports or the list of input ports      *)
(* found for the given names is empty, each of connect_source_to_sink,     *)
(* connect_to_virtual_sink, _connect_source_to_output and                  *)
(* connect_virtual_sink_to_output runs no pw-link, leaves the ledger as it *)
(* was and returns False.  This fails for connect_virtual_sink_to_output:  *)
(* it returns True.                                                        *)
(***************************************************************************)
C16_NoPortsReturnsFalse ==
    [][ ( /\ call'.op \in MatchRoutines
                          \cup {"connect_virtual_sink_to_output"}
          /\ \/ other_ports.outputs = <<>>
             \/ call'.args[2] = HDMI /\ other_ports.inputs = <<>> ) =>
          /\ At(cmds', {"link"}) = {}
          /\ _created_links' = _created_links
          /\ _monitor_links' = _monitor_links
          /\ ret' = FALSE ]_vars

(***************************************************************************)
(* The ramps on their own: fade_in, fade_out and _fade_sink_only called    *)
(* directly on a session that setup_recording has or has not set up.       *)
(***************************************************************************)
\* the percents the ramps of _fade_sink_only start and end at
Percents == {0, 1, 33, 50, 90, 91, 99, 100}

FadeIn ==
    /\ ncalls < MaxCalls
    /\ Call("fade_in", <<>>, fade_in, {F_VOL(USB_IN), F_VOL(RECORD_MIX)})

FadeOut ==
    /\ ncalls < MaxCalls
    /\ Call("fade_out", <<>>, fade_out, {F_VOL(USB_IN), F_VOL(RECORD_MIX)})

FadeSinkOnly ==
    /\ ncalls < MaxCalls
    /\ \E start \in Percents, end \in Percents :
           LET Method(w, F) == _fade_sink_only(w, MONITOR_MIX, start, end, F)
           IN  Call("_fade_sink_only", <<MONITOR_MIX, start, end>>, Method,
                    {F_VOL(MONITOR_MIX)})

InitFade ==
    /\ Init
    /\ sinks = [n \in SinkNames |-> 0]
    /\ ~flags.with_scrcpy
    /\ ~flags.connect_to_output

NextFade ==
    \/ SetupRecording
    \/ FadeIn
    \/ FadeOut
    \/ FadeSinkOnly

SpecFade == InitFade /\ [][NextFade]_vars

\* the record s is a ramp over the targets, in steps + 1 rounds: round k
\* sets every target once, in order, all to one value; s[i] of round k is
\* the command for target ((i - 1) % n) + 1
RampRounds(s, targets, steps) ==
    LET n == Len(targets)
    IN  /\ Len(s) = n * (steps + 1)
        /\ \A i \in 1..Len(s) :
              /\ <<s[i].c, s[i].a>> = targets[((i - 1) % n) + 1]
              /\ s[i].v = s[(((i - 1) \div n) * n) + 1].v

\* the managed sources, then the mix sink when the session has one
C17_Targets ==
    [i \in 1..Len(_managed_sources) |->
        <<"set-source-volume", _managed_sources[i]>>]
    \o (IF _virtual_sink_name # NoName
        THEN << <<"set-sink-volume", _virtual_sink_name>> >>
        ELSE <<>>)

(***************************************************************************)
(* C17.  fade_in issues, at every one of its FADE_STEPS + 1 steps, one     *)
(* volume-set to every managed source and one to the mix sink, all with    *)
(* the same value; the values never decrease from one step to the next,    *)
(* the first step sets 0 and the last command for each target sets 100.    *)
(* fade_out is the mirror image: the values never increase, the first step *)
(* sets 100 and the last command for each target sets 0.                   *)
(***************************************************************************)
C17_FadeInOutRamps ==
    [][ call'.op \in {"fade_in", "fade_out"} =>
          LET up == call'.op = "fade_in"
              n == Len(C17_Targets)
              s == cmds'
          IN  /\ RampRounds(s, C17_Targets, FADE_STEPS)
              /\ \A i \in 1..Len(s) : \A j \in i..Len(s) :
                    IF up THEN s[i].v <= s[j].v ELSE s[i].v >= s[j].v
              /\ \A i \in 1..n : s[i].v = IF up THEN 0 ELSE 100
              /\ \A i \in (Len(s) - n + 1)..Len(s) :
                    s[i].v = IF up THEN 100 ELSE 0
              /\ ret' = "None"
              /\ exc' = "none" ]_vars

\* a fade_out on a session with a managed source and a mix sink
C17_Witness ==
    /\ call.op = "fade_out"
    /\ _managed_sources # <<>>
    /\ _virtual_sink_name = RECORD_MIX
    /\ Len(cmds) = 2 * (FADE_STEPS + 1)
    /\ cmds[1].v = 100
    /\ cmds[Len(cmds)].v = 0

Abs(x) == IF x < 0 THEN 0 - x ELSE x

(***************************************************************************)
(* C18.  For every start and end percent and every step k of the N steps,  *)
(* _fade_sink_only commands the integer nearest to                         *)
(* start + (end - start) * k / N; the value lies between start and end     *)
(* inclusive, step 0 commands start, step N commands end, and a ramp with  *)
(* start = end commands that value at every step.  The first part fails:   *)
(* the code truncates the floating-point value.                            *)
(***************************************************************************)
C18_SinkRampRounds ==
    [][ call'.op = "_fade_sink_only" =>
          LET start == call'.args[2]
              end == call'.args[3]
              N == FadeSinkSteps
              lo == IF start <= end THEN start ELSE end
              hi == IF start <= end THEN end ELSE start
          IN  /\ Len(cmds') = N + 1
              /\ \A k \in 0..N :
                    LET v == cmds'[k + 1].v
                    IN  /\ 2 * Abs(v * N - (start * N + (end - start) * k))
                             <= N
                        /\ lo <= v /\ v <= hi
              /\ cmds'[1].v = start
              /\ cmds'[N + 1].v = end
              /\ start = end => \A k \in 0..N : cmds'[k + 1].v = start ]_vars

\* the record s has a failed command that is not its last command
FailsBeforeEnd(s) == \E i \in 1..(Len(s) - 1) : ~s[i].ok

(***************************************************************************)
(* C19.  When a volume-set command fails for one target during fade_in,    *)
(* fade_out or _fade_sink_only, the ramp does not stop and nothing is      *)
(* raised: every step still issues the volume-set for every target, the    *)
(* failing one included, through the last step, which commands the final   *)
(* value.                                                                  *)
(***************************************************************************)
C19_RampsContinueAfterFailure ==
    [][ ( /\ call'.op \in {"fade_in", "fade_out", "_fade_sink_only"}
          /\ \E i \in 1..Len(cmds') : ~cmds'[i].ok ) =>
          /\ exc' = "none"
          /\ call'.op = "fade_in" =>
                /\ RampRounds(cmds', C17_Targets, FADE_STEPS)
                /\ cmds'[Len(cmds')].v = 100
          /\ call'.op = "fade_out" =>
                /\ RampRounds(cmds', C17_Targets, FADE_STEPS)
                /\ cmds'[Len(cmds')].v = 0
          /\ call'.op = "_fade_sink_only" =>
                /\ RampRounds(cmds',
                              << <<"set-sink-volume", call'.args[1]>> >>,
                              FadeSinkSteps)
                /\ cmds'[Len(cmds')].v = call'.args[3] ]_vars

\* a fade_in during which every volume-set of the managed source failed and
\* every volume-set of the mix sink succeeded
C19_Witness ==
    /\ call.op = "fade_in"
    /\ call.F = {F_VOL(USB_IN)}
    /\ Len(cmds) = 2 * (FADE_STEPS + 1)
    /\ \A i \in 1..Len(cmds) : cmds[i].ok <=> (cmds[i].a = RECORD_MIX)
    /\ cmds[Len(cmds)].v = 100

(***************************************************************************)
(* Sink creation on its own: create_virtual_sink called directly, on a     *)
(* server that holds none, one or both of the sinks.                       *)
(***************************************************************************)
CreateVirtualSink ==
    /\ ncalls < MaxCalls
    /\ \E name \in SinkNames :
           LET Method(w, F) == create_virtual_sink(w, name, F)
           IN  Call("create_virtual_sink", <<name>>, Method,
                    {F_SINKS, F_LOAD(name)})

InitSink ==
    /\ Init
    /\ flags = [with_scrcpy |-> FALSE, with_synth |-> FALSE,
                connect_to_output |-> FALSE]

NextSink == CreateVirtualSink

SpecSink == InitSink /\ [][NextSink]_vars

(***************************************************************************)
(* C21.  Two calls create_virtual_sink(name) with the same name, nothing   *)
(* unloaded in between, both return that name when their commands          *)
(* succeed; only the first returns a module id and issues load-module, the *)
(* second returns no id and issues no load-module.  A call never issues    *)
(* load-module for a name whose sink the server lists, so the session      *)
(* never creates more than one sink per name.                              *)
(***************************************************************************)
C21_CreateIsIdempotent ==
    [][ call'.op = "create_virtual_sink" =>
          LET name == call'.args[1]
              loads == At(cmds', {"load-module"})
          IN  /\ exc' = "none"
              /\ Cardinality(loads) <= 1
              /\ \A i \in loads : cmds'[i].a = name
              /\ call'.F = {} => ret'[1] = name
              /\ sinks[name] # 0 =>
                    /\ loads = {}
                    /\ ret'[2] = NoId
                    /\ sinks' = sinks
              /\ (sinks[name] = 0 /\ call'.F = {}) =>
                    /\ loads # {}
                    /\ ret'[2] # NoId
                    /\ sinks' = [sinks EXCEPT ![name] = ret'[2]]
                    /\ ret'[2] \notin { sinks[n] : n \in SinkNames }
              /\ ( /\ call.op = "create_virtual_sink"
                   /\ call.args = call'.args
                   /\ call.F = {}
                   /\ call'.F = {} ) =>
                    /\ ret[1] = ret'[1]
                    /\ ret'[2] = NoId
                    /\ loads = {} ]_vars

\* the second of two calls for record_mix: the first loaded the sink and
\* returned its module id, the second found it
C21_Witness ==
    /\ call.op = "create_virtual_sink"
    /\ call.args = <<RECORD_MIX>>
    /\ ncalls = 2
    /\ next_module = 2
    /\ sinks[RECORD_MIX] = 1
    /\ ret = <<RECORD_MIX, NoId>>
    /\ cmds = <<>>

(***************************************************************************)
(* C23.  No operation raises when a command or a query of the audio server *)
(* fails: whichever commands fail during setup_recording,                  *)
(* enable_monitoring, disable_monitoring, toggle_monitoring or cleanup,    *)
(* the call returns.  Stated for the calls that no KeyboardInterrupt       *)
(* stops.  Fails: find_usb_audio_source does not catch the error of a      *)
(* failing "pactl list sources short", and setup_recording does not catch  *)
(* it either.                                                              *)
(***************************************************************************)
C23_CommandFailuresAreCaught ==
    ( /\ call.op \in {"setup_recording", "enable_monitoring",
                      "disable_monitoring", "toggle_monitoring", "cleanup"}
      /\ \A k \in 1..SetupSteps : F_STOP(k) \notin call.F ) =>
        exc = "none"

(***************************************************************************)
(* C28.  Every pair recorded in _monitor_links is also recorded in         *)
(* _created_links.  Fails: remove_all_links clears _created_links and      *)
(* leaves _monitor_links as it is.                                         *)
(***************************************************************************)
C28_MonitorLinksAreCreatedLinks ==
    Range(_monitor_links) \subseteq Range(_created_links)

(***************************************************************************)
(* C29.  After every call, when monitoring is Enabled the ledger holds a   *)
(* link from a port of the monitor sink to a port of the default sink.     *)
(* Fails: enable_monitoring and setup_recording set the state to Enabled   *)
(* without looking at the result of connect_source_to_sink.                *)
(***************************************************************************)
C29_EnabledHasMonitorLink ==
    _monitoring_enabled =>
        \E l \in Range(_created_links) :
            /\ BelongsTo(l[1], _monitor_sink_name)
            /\ BelongsTo(l[2], _default_sink)

\* the entries of the ledger s that do not lead from a port of node src to a
\* port of node dst, in their order
NotBetween(s, src, dst) ==
    LET Other(l) == ~(BelongsTo(l[1], src) /\ BelongsTo(l[2], dst))
    IN  SelectSeq(s, Other)

(***************************************************************************)
(* C25.  enable_monitoring, disable_monitoring and toggle_monitoring       *)
(* issue volume-sets only for the monitor sink, link and unlink only pairs *)
(* that lead from a port of the monitor sink to a port of the default      *)
(* sink, load and unload nothing and leave scrcpy alone; the ledger        *)
(* entries of the recording path (every entry that is not monitor sink ->  *)
(* default sink) stay in the ledger in their order, and no field of the    *)
(* session other than the ledger and the monitoring state changes.         *)
(***************************************************************************)
C25_MonitoringFrame ==
    [][ call'.op \in {"enable_monitoring", "disable_monitoring",
                      "toggle_monitoring"} =>
          /\ \A i \in At(cmds', VolumeSets) :
                /\ cmds'[i].c = "set-sink-volume"
                /\ cmds'[i].a = _monitor_sink_name
                /\ cmds'[i].a # _virtual_sink_name
          /\ \A l \in PairsAt(cmds', "link") \cup PairsAt(cmds', "unlink") :
                /\ BelongsTo(l[1], _monitor_sink_name)
                /\ BelongsTo(l[2], _default_sink)
          /\ At(cmds', {"load-module", "unload-module", "start-scrcpy",
                        "stop-scrcpy"}) = {}
          /\ NotBetween(_created_links', _monitor_sink_name, _default_sink)
                = NotBetween(_created_links, _monitor_sink_name,
                             _default_sink)
          /\ UNCHANGED << virtual_sink_id, monitor_sink_id, scrcpy_process,
                          _cleanup_registered, _monitor_links,
                          _managed_sources, _virtual_sink_name,
                          _monitor_sink_name, _default_sink, sinks,
                          next_module, unloaded >> ]_vars

\* a disable_monitoring that ramped the monitor sink down and unlinked it
\* from the default sink; the links of the recording path are in the ledger
C25_Witness ==
    /\ call.op = "disable_monitoring"
    /\ At(cmds, {"set-sink-volume"}) # {}
    /\ Stereo(MONITOR_MIX, S_MONITOR, SPK) \subseteq PairsAt(cmds, "unlink")
    /\ _managed_sources = <<USB_IN>>
    /\ Range(_created_links) =
           { <<Port(USB_IN, T_CAPTURE_MONO), Port(RECORD_MIX, T_PLAYBACK_FL)>>,
             <<Port(USB_IN, T_CAPTURE_MONO), Port(RECORD_MIX, T_PLAYBACK_FR)>> }
           \cup Stereo(RECORD_MIX, S_MONITOR, MONITOR_MIX)

\* the positions in the record s of the volume-sets of entity e that satisfy
\* Test
VolumeAt(s, e, Test(_)) ==
    { i \in At(s, VolumeSets) : s[i].a = e /\ Test(s[i].v) }

C30_CleanupNeverRaisesVolume ==
    [][ ( /\ call'.op = "cleanup"
          /\ call.op = "setup_recording"
          /\ ncalls = 1 ) =>
          \A i \in At(cmds', VolumeSets) :
              LET Every(v) == v \in 0..100
                  before == VolumeAt(cmds, cmds'[i].a, Every)
              IN  \A j \in before :
                      (\A k \in before : k <= j) => cmds'[i].v <= cmds[j].v
      ]_vars

(***************************************************************************)
(* The exit of the process: the interpreter runs the functions registered  *)
(* with atexit, here cleanup once per registration.  No call follows.      *)
(***************************************************************************)
RECURSIVE RunExitHooks(_, _, _)
RunExitHooks(w, n, F) ==
    IF n = 0 THEN Return(w, "None")
    ELSE Then(cleanup(w, F), LAMBDA w1 : RunExitHooks(w1, n - 1, F))

interpreter_exit(w, F) == RunExitHooks(w, w.atexit_hooks, F)

Exited == call.op = "exit"

ExitSetupRecording ==
    /\ ~Exited
    /\ SetupRecording

ExitCleanup ==
    /\ ~Exited
    /\ Cleanup

Exit ==
    /\ ncalls < MaxCalls
    /\ ~Exited
    /\ Call("exit", <<>>, interpreter_exit, CleanupFaults)

NextExit ==
    \/ ExitSetupRecording
    \/ ExitCleanup
    \/ Exit

SpecExit == Init /\ [][NextExit]_vars

(***************************************************************************)
(* C26.  When the session has loaded a sink, cleanup is registered with    *)
(* atexit, and it is registered at most once.  When the process exits,     *)
(* whatever came before (also a setup_recording that raised), the hook has *)
(* issued unload-module for the module id of every sink the session        *)
(* loaded.  Stated for the exits during which every command succeeds.      *)
(* The second half fails: after a second setup_recording the session no    *)
(* longer holds the module ids (C1), and the hook unloads nothing.         *)
(***************************************************************************)
C26_ExitHookUnloadsSinks ==
    /\ atexit_hooks <= 1
    /\ _cleanup_registered <=> atexit_hooks = 1
    /\ LoadedIds # {} => _cleanup_registered
    /\ (Exited /\ call.F = {}) => LoadedIds \subseteq unloaded

(***************************************************************************)
(* Two threads calling enable_monitoring and disable_monitoring on one     *)
(* session.  The methods hold no lock, so the statements of two calls      *)
(* interleave; a thread runs one numbered statement at a time.             *)
(***************************************************************************)
MonitoringOps == {"enable_monitoring", "disable_monitoring"}

\* the numbered statements of enable_monitoring, in order
EnableStep(w, k, F) ==
    CASE k = 1 ->
          IF \/ w._monitoring_enabled
             \/ ~Truthy(w._monitor_sink_name)
             \/ ~Truthy(w._default_sink)
          THEN [Return(w, "None") EXCEPT !.returned = TRUE]
          ELSE w
      [] k = 2 -> set_sink_volume(w, w._monitor_sink_name, 0, F)
      [] k = 3 -> connect_source_to_sink(w, w._monitor_sink_name,
                                         w._default_sink, F)
      [] k = 4 -> _fade_sink_only(w, w._monitor_sink_name, 0, 100, F)
      [] k = 5 -> [Return(SetMonitoring(w, TRUE), "None")
                       EXCEPT !.returned = TRUE]

\* the numbered statements of disable_monitoring, in order
DisableStep(w, k, F) ==
    CASE k = 1 ->
          IF ~w._monitoring_enabled \/ ~Truthy(w._monitor_sink_name)
          THEN [Return(w, "None") EXCEPT !.returned = TRUE]
          ELSE w
      [] k = 2 -> _fade_sink_only(w, w._monitor_sink_name, 100, 0, F)
      [] k = 3 -> DisconnectMonitor(w, w._created_links, F)
      [] k = 4 -> [Return(SetMonitoring(w, FALSE), "None")
                       EXCEPT !.returned = TRUE]

MonitoringStep(w, op, k, F) ==
    IF op = "enable_monitoring" THEN EnableStep(w, k, F)
    ELSE DisableStep(w, k, F)

\* thread t has run statement k of op and left the state w
ThreadRan(t, op, k, w) ==
    /\ StoreWorld(w)
    /\ call' = [op |-> op, args |-> <<t, k>>, F |-> {}]
    /\ threads' = [threads EXCEPT ![t] =
                      IF w.returned THEN [op |-> "idle", pc |-> 0]
                      ELSE [op |-> op, pc |-> k + 1]]
    /\ UNCHANGED << flags, nfaults, main >>

\* thread t calls a monitoring method and runs its tests of the state
Invoke(t) ==
    /\ ncalls < MaxCalls
    /\ threads[t].op = "idle"
    /\ \E op \in MonitoringOps : \E w \in {MonitoringStep(Begin, op, 1, {})} :
          /\ ThreadRan(t, op, 1, w)
          /\ ncalls' = ncalls + 1

\* thread t runs the next statement of the method it is in
ThreadStep(t) ==
    /\ threads[t].op # "idle"
    /\ \E w \in {MonitoringStep(Begin, threads[t].op, threads[t].pc, {})} :
          /\ ThreadRan(t, threads[t].op, threads[t].pc, w)
          /\ ncalls' = ncalls

\* setup_recording runs before the threads start
ThreadsSetupRecording ==
    /\ \A t \in Threads : threads[t].op = "idle"
    /\ call.op = "__init__"
    /\ SetupRecording

InitThreads ==
    /\ Init
    /\ ~flags.with_scrcpy
    /\ flags.connect_to_output

NextThreads ==
    \/ ThreadsSetupRecording
    \/ \E t \in Threads : Invoke(t)
    \/ \E t \in Threads : ThreadStep(t)

SpecThreads == InitThreads /\ [][NextThreads]_vars

(***************************************************************************)
(* C24.  The monitoring transition is never entered twice concurrently: no *)
(* two threads are past the tests of the same monitoring method at the     *)
(* same time, so a call made while an earlier call of the same method is   *)
(* in its connect/fade sequence returns at its tests and issues no         *)
(* command.  Fails: the methods test only _monitoring_enabled, which is    *)
(* assigned by the last statement of the sequence.                         *)
(***************************************************************************)
C24_NeverEnteredTwice ==
    \A t, u \in Threads :
        (t # u /\ threads[t].op \in MonitoringOps
               /\ threads[t].op = threads[u].op) =>
            ~(threads[t].pc > 1 /\ threads[u].pc > 1)

(***************************************************************************)
(* The scripts record.py and monitor.py: main() as a sequence of           *)
(* statements, the disposition of SIGINT, and SIGINT arriving between any  *)
(* two statements.  main.pc is the statement main() is about to run,       *)
(* main.k the statement of cleanup it is about to run, main.sigint what    *)
(* signal.signal last installed, main.stopping the flag that the scripts'  *)
(* handlers set, main.looped whether the run loop has started (ghost),     *)
(* main.ignored the signals that SIG_IGN has discarded (ghost).            *)
(* monitor.py is modelled without --synth-only and --mic-only.             *)
(***************************************************************************)
Programs == {"record", "monitor"}

\* the numbered statements of cleanup, in order
CleanupSteps == 6
CleanupStep(w, k, F) ==
    CASE k = 1 ->
          IF w._monitoring_enabled /\ Truthy(w._monitor_sink_name)
          THEN _fade_sink_only(w, w._monitor_sink_name, 100, 0, F)
          ELSE w
      [] k = 2 ->
          IF w._managed_sources # <<>> \/ Truthy(w._virtual_sink_name)
          THEN fade_out(w, F)
          ELSE w
      [] k = 3 -> remove_all_links(w, F)
      [] k = 4 -> stop_scrcpy(w)
      [] k = 5 -> remove_virtual_sink(w, F)
      [] k = 6 ->
          Return(SetMonitoring([w EXCEPT !._managed_sources = <<>>,
                                         !._virtual_sink_name = NoName,
                                         !._monitor_sink_name = NoName],
                               FALSE), "None")

\* main() of the program starts here, with Python's handler for SIGINT
MainStart(program) ==
    [ program |-> program,
      pc |-> IF program = "record" THEN "setup" ELSE "install",
      k |-> 0, sigint |-> "default_int_handler", stopping |-> FALSE,
      looped |-> FALSE, interrupts |-> 0, ignored |-> 0 ]

\* the statements of main() that call nothing on the session, and the
\* statement that follows each
NextPc(program, pc) ==
    IF program = "record"
    THEN CASE pc = "try" -> "install"
           [] pc = "install" -> "loop"
           [] pc = "stop" -> "saved"
           [] pc = "saved" -> "finally"
           [] pc = "finally" -> "cleanup"
           [] pc = "restore" -> "exit"
    ELSE CASE pc = "install" -> "setup"
           [] pc = "finally" -> "cleanup"
           [] pc = "restore" -> "exit"

Statements(program) ==
    IF program = "record"
    THEN {"try", "install", "stop", "saved", "finally", "restore"}
    ELSE {"install", "finally", "restore"}

\* the finally block that restores the default before it cleans up
SigintAfter_restore_first(pc, sigint) ==
    CASE pc = "install" -> "signal_handler"
      [] pc = "finally" -> "SIG_DFL"
      [] pc = "restore" -> "SIG_DFL"
      [] OTHER -> sigint

\* the disposition of SIGINT after the statement at pc
SigintAfter(pc, sigint) ==
    CASE pc = "install" -> "signal_handler"
      [] pc = "finally" -> "SIG_IGN"
      [] pc = "restore" -> "SIG_DFL"
      [] OTHER -> sigint

\* any(targets.values()) of record.py, from the map setup_recording returned
HasTargets(sources) ==
    \E key \in (DOMAIN sources) \cap {"synth", "mic", "mix"} :
        Truthy(sources[key])

\* where a KeyboardInterrupt raised at pc takes main()
Raised(program, pc) ==
    IF program = "record"
    THEN CASE pc \in {"try", "install", "stop", "saved"} -> "finally"
           [] pc = "loop" -> "stop"
           [] OTHER -> "exit"
    ELSE CASE pc = "loop" -> "finally"
           [] OTHER -> "exit"

\* the session call made by a statement of main() has left the state w;
\* main() uses what the call returned to choose its next statement (next)
\* and keeps nothing else of it
MainRan(w, op, F, next) ==
    /\ StoreWorld(Return(w, "None"))
    /\ call' = [op |-> op, args |-> <<>>, F |-> F]
    /\ nfaults' = IF F = {} THEN nfaults ELSE nfaults + 1
    /\ main' = next
    /\ UNCHANGED << flags, threads >>

MainStatement ==
    /\ main.pc \in Statements(main.program)
    /\ main' = [main EXCEPT
                   !.pc = NextPc(main.program, main.pc),
                   !.k = IF main.pc = "finally" THEN 1 ELSE 0,
                   !.sigint = SigintAfter(main.pc, main.sigint),
                   !.looped = @ \/ NextPc(main.program, main.pc) = "loop",
                   !.stopping = IF main.program = "record"
                                   /\ main.pc = "install"
                                THEN FALSE ELSE @]
    /\ UNCHANGED << virtual_sink_id, monitor_sink_id, scrcpy_process,
                    _cleanup_registered, _created_links, _monitor_links,
                    _managed_sources, _virtual_sink_name, _monitor_sink_name,
                    _default_sink, _monitoring_enabled, sinks, next_module,
                    other_ports, unloaded, cmds, call, ret, exc, flags,
                    ncalls, nfaults, atexit_hooks, threads >>

\* setup_recording as main() calls it; a KeyboardInterrupt stops it only
\* under Python's handler
MainSetup ==
    /\ main.pc = "setup"
    /\ ncalls' = ncalls + 1
    /\ LET Method(w, F) ==
               setup_recording(w, flags.with_scrcpy, flags.with_synth,
                               flags.connect_to_output, F)
           kinds == IF main.sigint = "default_int_handler"
                    THEN SetupFaults
                    ELSE SetupFaults \ { F_STOP(k) : k \in 1..SetupSteps }
           After(w) ==
               [main EXCEPT
                   !.pc = IF w.exc # "none" THEN "exit"
                          ELSE IF main.program = "monitor" THEN "loop"
                          ELSE IF HasTargets(w.ret) THEN "try"
                          ELSE "early_cleanup",
                   !.looped = w.exc = "none" /\ main.program = "monitor",
                   !.k = IF /\ w.exc = "none"
                            /\ main.program = "record"
                            /\ ~HasTargets(w.ret)
                         THEN 1 ELSE 0]
       IN  \E b \in {Begin} : \E good \in {Method(b, {})} :
               \/ MainRan(good, "setup_recording", {}, After(good))
               \/ /\ nfaults < MaxFaults
                  /\ \E f \in kinds : \E bad \in {Method(b, {f})} :
                        /\ bad # good
                        /\ MainRan(bad, "setup_recording", {f}, After(bad))

\* the run loop ends: the flag is set, the duration is over (record.py) or
\* scrcpy has died (monitor.py)
MainLoop ==
    /\ main.pc = "loop"
    /\ main.stopping \/ main.program = "record" \/ flags.with_scrcpy
    /\ main' = [main EXCEPT !.pc = IF main.program = "record"
                                   THEN "stop" ELSE "finally"]
    /\ UNCHANGED << virtual_sink_id, monitor_sink_id, scrcpy_process,
                    _cleanup_registered, _created_links, _monitor_links,
                    _managed_sources, _virtual_sink_name, _monitor_sink_name,
                    _default_sink, _monitoring_enabled, sinks, next_module,
                    other_ports, unloaded, cmds, call, ret, exc, flags,
                    ncalls, nfaults, atexit_hooks, threads >>

\* one statement of cleanup, called in the finally block ("cleanup") or
\* before sys.exit(1) of record.py ("early_cleanup")
MainCleanup ==
    /\ main.pc \in {"cleanup", "early_cleanup"}
    /\ ncalls' = IF main.k = 1 THEN ncalls + 1 ELSE ncalls
    /\ LET last == main.k = CleanupSteps
           next == [main EXCEPT
                       !.pc = IF ~last THEN @
                              ELSE IF @ = "cleanup" THEN "restore"
                              ELSE "exit",
                       !.k = IF last THEN 0 ELSE @ + 1]
       IN  \E b \in {IF main.k = 1 THEN Begin ELSE World} :
           \E good \in {CleanupStep(b, main.k, {})} :
               \/ MainRan(good, "cleanup", {}, next)
               \/ /\ nfaults < MaxFaults
                  /\ \E f \in CleanupFaults :
                     \E bad \in {CleanupStep(b, main.k, {f})} :
                        /\ bad # good
                        /\ MainRan(bad, "cleanup", {f}, next)

\* main() has returned or raised: the interpreter runs the atexit hooks
MainExit ==
    /\ main.pc = "exit"
    /\ ncalls' = ncalls + 1
    /\ \E w \in {interpreter_exit(Begin, {})} :
           MainRan(w, "exit", {}, [main EXCEPT !.pc = "done"])

\* SIGINT arrives.  SIG_IGN discards it, the handler of the script sets its
\* flag, Python's handler raises KeyboardInterrupt in main(), SIG_DFL ends
\* the process at once (no finally block, no atexit hook).
Interrupt ==
    /\ main.pc \notin {"none", "done", "killed"}
    /\ main.pc = "exit" => main.sigint = "SIG_DFL"
    /\ main.interrupts < MaxInterrupts
    /\ main' = [main EXCEPT
           !.interrupts = @ + 1,
           !.ignored = IF main.sigint = "SIG_IGN" THEN @ + 1 ELSE @,
           !.stopping = IF main.sigint = "signal_handler" THEN TRUE ELSE @,
           !.pc = CASE main.sigint = "SIG_DFL" -> "killed"
                    [] main.sigint = "default_int_handler" ->
                           Raised(main.program, main.pc)
                    [] OTHER -> @,
           !.k = IF main.sigint \in {"SIG_DFL", "default_int_handler"}
                 THEN 0 ELSE @]
    /\ UNCHANGED << virtual_sink_id, monitor_sink_id, scrcpy_process,
                    _cleanup_registered, _created_links, _monitor_links,
                    _managed_sources, _virtual_sink_name, _monitor_sink_name,
                    _default_sink, _monitoring_enabled, sinks, next_module,
                    other_ports, unloaded, cmds, call, ret, exc, flags,
                    ncalls, nfaults, atexit_hooks, threads >>

InitMain ==
    /\ virtual_sink_id = NoId
    /\ monitor_sink_id = NoId
    /\ scrcpy_process = "None"
    /\ _cleanup_registered = FALSE
    /\ _created_links = <<>>
    /\ _monitor_links = <<>>
    /\ _managed_sources = <<>>
    /\ _virtual_sink_name = NoName
    /\ _monitor_sink_name = NoName
    /\ _default_sink = NoName
    /\ _monitoring_enabled = FALSE
    /\ sinks \in [SinkNames -> {0, ExternalModule}]
    /\ next_module = 1
    /\ other_ports = NoPorts
    /\ unloaded = {}
    /\ cmds = <<>>
    /\ call = [op |-> "__init__", args |-> <<>>, F |-> {}]
    /\ ret = "None"
    /\ exc = "none"
    /\ main \in { MainStart(program) : program \in Programs }
    /\ flags \in [with_scrcpy : BOOLEAN, with_synth : {TRUE},
                  connect_to_output : BOOLEAN]
    /\ main.program = "monitor" => flags.connect_to_output
    /\ ncalls = 0
    /\ nfaults = 0
    /\ atexit_hooks = 0
    /\ threads = NoThreads

MainSteps ==
    \/ MainStatement
    \/ MainSetup
    \/ MainLoop
    \/ MainCleanup
    \/ MainExit

NextMain ==
    \/ MainSteps
    \/ Interrupt

SpecMain == InitMain /\ [][NextMain]_vars

\* main() keeps running: a statement of the finally block that can run
\* does run
SpecMainFair ==
    SpecMain /\ WF_vars(MainStatement) /\ WF_vars(MainCleanup)

\* from the start of the run loop to the end of cleanup
C22_Scope == {"loop", "stop", "saved", "finally", "cleanup", "restore"}

(***************************************************************************)
(* C22.  In record.py and monitor.py, from the start of the run loop on,   *)
(* no SIGINT aborts cleanup: main() leaves the statements from the run     *)
(* loop to the end of the finally block only after cleanup has returned,   *)
(* and cleanup runs its statements one after the other; while cleanup runs *)
(* SIGINT is ignored (SIG_IGN); SIG_IGN is replaced only by the statement  *)
(* that follows cleanup; when cleanup has returned the session is empty    *)
(* and the last volume-set that cleanup issued for each entity is 0; and   *)
(* once the finally block is entered, cleanup returns.                     *)
(***************************************************************************)
C22_InterruptsNeverAbortCleanup ==
    /\ [][ /\ (main.looped /\ main.pc \in C22_Scope) =>
                /\ main'.pc \in C22_Scope \cup {"exit"}
                /\ main'.pc = "exit" => main.pc = "restore"
           /\ (main.looped /\ main.pc = "cleanup") =>
                \/ main'.pc = "cleanup" /\ main'.k \in {main.k, main.k + 1}
                \/ main'.pc = "restore" /\ main.k = CleanupSteps
           /\ (main.sigint = "SIG_IGN" /\ main'.sigint # "SIG_IGN") =>
                main.pc = "restore" ]_vars
    /\ [](main.looped => (main.pc \in C22_Scope \cup {"exit", "done",
                                                      "killed"}))
    /\ []((main.looped /\ main.pc \in {"loop", "stop", "saved", "finally"})
              => main.sigint = "signal_handler")
    /\ [](main.pc = "cleanup" => main.sigint = "SIG_IGN")
    /\ [](main.pc = "restore" =>
            /\ main.sigint = "SIG_IGN"
            /\ call.op = "cleanup"
            /\ exc = "none"
            /\ _created_links = <<>>
            /\ _managed_sources = <<>>
            /\ _virtual_sink_name = NoName
            /\ _monitor_sink_name = NoName
            /\ virtual_sink_id = NoId
            /\ monitor_sink_id = NoId
            /\ scrcpy_process = "None"
            /\ ~_monitoring_enabled
            /\ \A i \in At(cmds, VolumeSets) :
                  (\A j \in At(cmds, VolumeSets) :
                       cmds[j].a = cmds[i].a => j <= i) => cmds[i].v = 0)
    /\ ((main.looped /\ main.pc = "finally") ~> main.pc = "restore")

\* cleanup has returned in the finally block: it faded out, unlinked and
\* unloaded, and SIG_IGN discarded two SIGINTs on the way
C22_Witness ==
    /\ main.pc = "restore"
    /\ main.looped
    /\ main.ignored = MaxInterrupts
    /\ At(cmds, VolumeSets) # {}
    /\ At(cmds, {"unlink"}) # {}
    /\ At(cmds, {"unload-module"}) # {}

(***************************************************************************)
(* The module-level convenience functions: setup_all and cleanup_all on    *)
(* the global instance that get_setup creates when there is none.          *)
(***************************************************************************)
\* AudioSetup(): the fields as __init__ leaves them
NewAudioSetup(w) ==
    [w EXCEPT !.virtual_sink_id = NoId,
              !.monitor_sink_id = NoId,
              !.scrcpy_process = "None",
              !._cleanup_registered = FALSE,
              !._created_links = <<>>,
              !._monitor_links = <<>>,
              !._managed_sources = <<>>,
              !._virtual_sink_name = NoName,
              !._monitor_sink_name = NoName,
              !._default_sink = NoName,
              !._monitoring_enabled = FALSE]

\* get_setup().setup_recording(with_scrcpy, connect_to_output): the two
\* arguments are passed by position, to with_scrcpy and with_synth, and
\* connect_to_output keeps its default
setup_all(w, with_scrcpy, connect_to_output, F) ==
    setup_recording(w, with_scrcpy, connect_to_output, TRUE, F)

\* _setup.cleanup(); _setup = None: the next get_setup makes a new instance
cleanup_all(w, F) ==
    Then(cleanup(w, F), LAMBDA w1 : NewAudioSetup(w1))

SetupAll ==
    /\ ncalls < MaxCalls
    /\ LET Method(w, F) ==
               setup_all(w, flags.with_scrcpy, flags.connect_to_output, F)
       IN  Call("setup_all", <<flags.with_scrcpy, flags.connect_to_output>>,
                Method, SetupFaults)

CleanupAll ==
    /\ ncalls < MaxCalls
    /\ Call("cleanup_all", <<>>, cleanup_all, CleanupFaults)

InitAll ==
    /\ Init
    /\ flags.with_synth

NextAll ==
    \/ SetupAll
    \/ CleanupAll

SpecAll == InitAll /\ [][NextAll]_vars

(***************************************************************************)
(* C31.  setup_all(with_scrcpy, connect_to_output) does to the session and *)
(* the server what setup_recording(with_scrcpy=with_scrcpy,                *)
(* connect_to_output=connect_to_output) does from the same state in the    *)
(* same environment: the same commands, the same result, the same fields.  *)
(* Fails: setup_all passes connect_to_output by position, so it lands in   *)
(* with_synth and the monitor path is always set up.                       *)
(***************************************************************************)
C31_SetupAllIsSetupRecording ==
    [][ call'.op = "setup_all" =>
          \E w \in { setup_recording(Begin, call'.args[1], TRUE,
                                     call'.args[2], call'.F) } :
              /\ cmds' = w.cmds
              /\ exc' = w.exc
              /\ DOMAIN ret' = DOMAIN w.ret
              /\ \A key \in DOMAIN ret' : ret'[key] = w.ret[key]
              /\ _created_links' = w._created_links
              /\ _managed_sources' = w._managed_sources
              /\ _virtual_sink_name' = w._virtual_sink_name
              /\ _monitor_sink_name' = w._monitor_sink_name
              /\ _default_sink' = w._default_sink
              /\ _monitoring_enabled' = w._monitoring_enabled
              /\ virtual_sink_id' = w.virtual_sink_id
              /\ monitor_sink_id' = w.monitor_sink_id
              /\ scrcpy_process' = w.scrcpy_process
              /\ sinks' = w.sinks ]_vars

====
